---- MODULE Spec2Model ----
(***************************************************************************)
(* Per-diem calculation engine of travel-mate                              *)
(* (backend/services/german_travel_rules.py).                              *)
(*                                                                         *)
(* One call of GermanTravelRulesService.calculate is a small state machine *)
(* over the call's locals: the validator, then for every segment in start  *)
(* order the rate lookup, the day allocation, the meal deduction and the   *)
(* accumulation, then the totals.  The helpers are operators computed as   *)
(* the code computes them.                                                 *)
(*                                                                         *)
(* A datetime is a number of minutes since midnight of day 0; a Decimal is *)
(* a record [c, e] standing for c * 10^-e, so that 5.6000 and 5.60 are     *)
(* equal in value and different in representation, as in Python.           *)
(***************************************************************************)
EXTENDS Integers, Sequences, FiniteSets, TLC

VARIABLES
    segments,              \* the batch handed to calculate, in input order
    pc,                    \* position of the call
    ordered,               \* sorted(segments, key=start), the loop's iterable
    idx,                   \* index in ordered of the segment being processed
    steps,                 \* calculate's list `steps`
    by_trip,               \* calculate's list `by_trip`
    gross_total,           \* running Decimal
    meal_deduction_total,  \* running Decimal
    rates,                 \* loop local, None or <<RateSet>>
    segment_steps,         \* loop local
    day_allowance,         \* loop local, None or <<Decimal>>
    meal_deduction,        \* loop local, None or <<Decimal>>
    result,                \* None or <<payload>>: what calculate returned
    error,                 \* None or <<error>>: what calculate raised
    \* a service object used by several callers
    calls,                 \* caller -> the locals of the call it is running
    shared,                \* the module globals and the class attribute
    log,                   \* the calls that ended: entry point, batch, outcome
    \* ReceiptUpdateService on one receipt (services.py, repositories.py)
    receipt_row,           \* the receipt's row: column -> stored value
    ownership,             \* field_update_ownership: field -> owner
    corrected,             \* field -> None or <<the value a manual correction
                           \* gave it, no forced OCR update of it since>>
    last_update,           \* the last call of the service and how it ended
    in_transaction,        \* the connection has statements not yet committed
    in_flight,             \* two calls of the service running at once, each on
                           \* a connection of its own: their positions, their
                           \* locals and the transaction that is open
    \* one Trip and an ExportSnapshotStore (core.py)
    expenses,              \* Trip.expenses, a list of ExpenseItem
    trip_change_log,       \* Trip.change_log
    snapshot_files,        \* the files under exports/<trip_id>/
    clock,                 \* what utc_now() last returned
    last_export,           \* the last call on the trip or the store
    \* RetentionSettings.prune on a base directory (core.py)
    files,                 \* the entries under the base directory
    last_prune             \* the last call of prune and what it returned

\* the locals of the one call of calculate the specification Spec follows
callVars == <<segments, pc, ordered, idx, steps, by_trip, gross_total,
              meal_deduction_total, rates, segment_steps, day_allowance,
              meal_deduction, result, error>>

sessionVars == <<calls, shared, log>>

receiptVars == <<receipt_row, ownership, corrected, last_update,
                 in_transaction, in_flight>>

tripVars == <<expenses, trip_change_log, snapshot_files, clock, last_export>>

retentionVars == <<files, last_prune>>

outsideCall == <<sessionVars, receiptVars, tripVars, retentionVars>>

outsideSession == <<callVars, receiptVars, tripVars, retentionVars>>

outsideReceipts == <<callVars, sessionVars, tripVars, retentionVars>>

outsideTrip == <<callVars, sessionVars, receiptVars, retentionVars>>

outsideRetention == <<callVars, sessionVars, receiptVars, tripVars>>

vars == <<callVars, sessionVars, receiptVars, tripVars, retentionVars>>

None == <<>>

Some(v) == <<v>>

(***************************************************************************)
(* Bounds of the checked inputs.                                           *)
(***************************************************************************)
MaxDay == 3

MaxSegs == 3

MaxMeals == 2

(***************************************************************************)
(* datetime                                                                *)
(***************************************************************************)
MinutesPerDay == 1440

SecondsPerMinute == 60

SecondsPerHour == 3600

At(d, m) == d * MinutesPerDay + m

\* datetime.date()
DateOf(t) == t \div MinutesPerDay

\* (end - start).total_seconds()
TotalSeconds(start, end) == (end - start) * SecondsPerMinute

(***************************************************************************)
(* Decimal                                                                 *)
(***************************************************************************)
RECURSIVE Pow10(_)
Pow10(n) == IF n = 0 THEN 1 ELSE 10 * Pow10(n - 1)

Dec(c, e) == [c |-> c, e |-> e]

Max(a, b) == IF a >= b THEN a ELSE b

Abs(n) == IF n < 0 THEN 0 - n ELSE n

\* coefficient of d written with e places (e >= d.e)
Scaled(d, e) == d.c * Pow10(e - d.e)

DecAdd(a, b) ==
    LET e == Max(a.e, b.e) IN Dec(Scaled(a, e) + Scaled(b, e), e)

DecSub(a, b) ==
    LET e == Max(a.e, b.e) IN Dec(Scaled(a, e) - Scaled(b, e), e)

DecMul(a, b) == Dec(a.c * b.c, a.e + b.e)

\* numeric comparison of Decimals (==, >=), whatever their exponents
DecEq(a, b) == LET e == Max(a.e, b.e) IN Scaled(a, e) = Scaled(b, e)

DecIsZero(a) == a.c = 0

\* value.quantize(Decimal("0.01"), rounding=ROUND_HALF_UP)
_money(value) ==
    IF value.e <= 2
    THEN Dec(Scaled(value, 2), 2)
    ELSE LET unit == Pow10(value.e - 2)
             mag  == Abs(value.c)
             q    == mag \div unit
             r    == mag % unit
             up   == IF 2 * r >= unit THEN q + 1 ELSE q
         IN Dec(IF value.c < 0 THEN 0 - up ELSE up, 2)

\* str(Decimal) of a value with e >= 0 places: sign, integer digits, fraction
\* digits
Str(d) ==
    [neg    |-> d.c < 0,
     units  |-> Abs(d.c) \div Pow10(d.e),
     frac   |-> Abs(d.c) % Pow10(d.e),
     places |-> d.e]

(***************************************************************************)
(* Module constants                                                        *)
(***************************************************************************)
RULE_VERSION == "DE_TRAVEL_RULES_2026_01"

DOMESTIC_FULL_DAY_RATE == Dec(2800, 2)

DOMESTIC_PARTIAL_DAY_RATE == Dec(1400, 2)

\* an ordered dict: breakfast, lunch, dinner
MEAL_DEDUCTION_RATES ==
    << [key |-> "breakfast", ratio |-> Dec(20, 2)],
       [key |-> "lunch",     ratio |-> Dec(40, 2)],
       [key |-> "dinner",    ratio |-> Dec(40, 2)] >>

INTERNATIONAL_RATE_TABLE ==
    [AT |-> [full_day |-> Dec(4000, 2), partial_day |-> Dec(2700, 2)],
     CH |-> [full_day |-> Dec(6400, 2), partial_day |-> Dec(4300, 2)],
     FR |-> [full_day |-> Dec(5300, 2), partial_day |-> Dec(3500, 2)],
     NL |-> [full_day |-> Dec(4700, 2), partial_day |-> Dec(3200, 2)]]

\* str.upper() on the country codes of the checked inputs
Upper(code) ==
    CASE code = "de" -> "DE"
      [] code = "at" -> "AT"
      [] code = "ch" -> "CH"
      [] code = "fr" -> "FR"
      [] code = "nl" -> "NL"
      [] code = "zz" -> "ZZ"
      [] code \in {"De", "dE"} -> "DE"
      [] code \in {"At", "aT"} -> "AT"
      [] code \in {"Ch", "cH"} -> "CH"
      [] code \in {"Fr", "fR"} -> "FR"
      [] code \in {"Nl", "nL"} -> "NL"
      [] code \in {"Zz", "zZ"} -> "ZZ"
      [] code = "us" -> "US"
      [] code = "deu" -> "DEU"
      [] OTHER -> code

(***************************************************************************)
(* Values: TripSegment, DayMealProvision, Receipt, the error raised, and   *)
(* the lines of the audit trace (f-strings, kept as the tuple of what they *)
(* interpolate).                                                           *)
(***************************************************************************)
Receipt(receipt_id) == [receipt_id |-> receipt_id, amount |-> Dec(1000, 2)]

DayMealProvision(day, breakfast, lunch, dinner) ==
    [day |-> day, breakfast |-> breakfast, lunch |-> lunch, dinner |-> dinner]

TripSegment(trip_id, start, end, country_code, provided_meals, receipts) ==
    [trip_id |-> trip_id, start |-> start, end |-> end,
     country_code |-> country_code, provided_meals |-> provided_meals,
     receipts |-> receipts]

\* TravelRuleValidationError with what its message names
TravelRuleValidationError(kind, trips, receipt, code) ==
    [kind |-> kind, trips |-> trips, receipt |-> receipt, code |-> code]

NoAmount == Str(Dec(0, 0))

Line(kind, trip, day, text, n, a, b, c) ==
    [kind |-> kind, trip |-> trip, day |-> day, text |-> text, n |-> n,
     a |-> a, b |-> b, c |-> c]

\* f"{x:.Nf}" of the quotient num / den (num, den > 0), in units of 10^-places:
\* round-half-even, the rounding of the default decimal context
FormatQuotient(num, den, places) ==
    LET scaled == num * Pow10(places)
        q      == scaled \div den
        r      == scaled % den
    IN IF 2 * r > den \/ (2 * r = den /\ q % 2 = 1) THEN q + 1 ELSE q

(***************************************************************************)
(* sorted(segments, key=lambda s: s.start): a stable sort                  *)
(***************************************************************************)
RECURSIVE InsertByStart(_, _)
InsertByStart(sortedSegs, s) ==
    IF sortedSegs = <<>> THEN <<s>>
    ELSE IF Head(sortedSegs).start <= s.start
         THEN <<Head(sortedSegs)>> \o InsertByStart(Tail(sortedSegs), s)
         ELSE <<s>> \o sortedSegs

RECURSIVE SortInto(_, _)
SortInto(acc, rest) ==
    IF rest = <<>> THEN acc
    ELSE SortInto(InsertByStart(acc, Head(rest)), Tail(rest))

SortedByStart(segs) == SortInto(<<>>, segs)

\* faulty variant: the segments are processed in input order
InputOrder(segs) == segs

\* line 87: the order in which calculate processes the segments
ProcessingOrder(segs) == SortedByStart(segs)

Min(S) == CHOOSE x \in S : \A y \in S : x <= y

(***************************************************************************)
(* The validator.  Each check returns None, or Some(error) for the error   *)
(* it raises.                                                              *)
(***************************************************************************)
\* faulty variant: the adjacent pairs of the input order, the sort forgotten
_validate_overlaps_unsorted(segs) ==
    LET bad == {i \in 1..(Len(segs) - 1) : segs[i + 1].start < segs[i].end}
    IN IF bad = {} THEN None
       ELSE LET i == Min(bad)
            IN Some(TravelRuleValidationError(
                   "overlap", <<segs[i].trip_id, segs[i + 1].trip_id>>, "", ""))

_validate_overlaps(segs) ==
    LET o   == SortedByStart(segs)
        bad == {i \in 1..(Len(o) - 1) : o[i + 1].start < o[i].end}
    IN IF bad = {} THEN None
       ELSE LET i == Min(bad)
            IN Some(TravelRuleValidationError(
                   "overlap", <<o[i].trip_id, o[i + 1].trip_id>>, "", ""))

\* the receipts of the batch in scan order, each with its trip
RECURSIVE ReceiptScan(_)
ReceiptScan(segs) ==
    IF segs = <<>> THEN <<>>
    ELSE [k \in 1..Len(Head(segs).receipts) |->
             [receipt_id |-> Head(segs).receipts[k].receipt_id,
              trip_id    |-> Head(segs).trip_id]]
         \o ReceiptScan(Tail(segs))

\* faulty variant: the receipts are scanned in start order of the segments
_validate_duplicate_receipts_sorted(segs) ==
    LET scan == ReceiptScan(SortedByStart(segs))
        dup  == {j \in 1..Len(scan) :
                    \E i \in 1..(j - 1) : scan[i].receipt_id = scan[j].receipt_id}
    IN IF dup = {} THEN None
       ELSE LET j == Min(dup)
                i == Min({k \in 1..(j - 1) :
                             scan[k].receipt_id = scan[j].receipt_id})
            IN Some(TravelRuleValidationError(
                   "duplicate", <<scan[i].trip_id, scan[j].trip_id>>,
                   scan[j].receipt_id, ""))

_validate_duplicate_receipts(segs) ==
    LET scan == ReceiptScan(segs)
        dup  == {j \in 1..Len(scan) :
                    \E i \in 1..(j - 1) : scan[i].receipt_id = scan[j].receipt_id}
    IN IF dup = {} THEN None
       ELSE LET j == Min(dup)
                i == Min({k \in 1..(j - 1) :
                             scan[k].receipt_id = scan[j].receipt_id})
            IN Some(TravelRuleValidationError(
                   "duplicate", <<scan[i].trip_id, scan[j].trip_id>>,
                   scan[j].receipt_id, ""))

\* faulty variant: the duplicate receipt check is not run
_validate_segments_no_duplicates(segs) ==
    IF segs = <<>>
    THEN Some(TravelRuleValidationError("empty", <<>>, "", ""))
    ELSE LET bad == {i \in 1..Len(segs) : segs[i].end <= segs[i].start}
         IN IF bad # {}
            THEN Some(TravelRuleValidationError(
                     "timespan", <<segs[Min(bad)].trip_id>>, "", ""))
            ELSE _validate_overlaps(segs)

\* faulty variant: only an end before the start is an impossible time span
_validate_segments_strictly_before(segs) ==
    IF segs = <<>>
    THEN Some(TravelRuleValidationError("empty", <<>>, "", ""))
    ELSE LET bad == {i \in 1..Len(segs) : segs[i].end < segs[i].start}
         IN IF bad # {}
            THEN Some(TravelRuleValidationError(
                     "timespan", <<segs[Min(bad)].trip_id>>, "", ""))
            ELSE IF _validate_overlaps(segs) # None
                 THEN _validate_overlaps(segs)
                 ELSE _validate_duplicate_receipts(segs)

\* faulty variant: the receipts are checked before the overlaps
_validate_segments_duplicates_first(segs) ==
    IF segs = <<>>
    THEN Some(TravelRuleValidationError("empty", <<>>, "", ""))
    ELSE LET bad == {i \in 1..Len(segs) : segs[i].end <= segs[i].start}
         IN IF bad # {}
            THEN Some(TravelRuleValidationError(
                     "timespan", <<segs[Min(bad)].trip_id>>, "", ""))
            ELSE IF _validate_duplicate_receipts(segs) # None
                 THEN _validate_duplicate_receipts(segs)
                 ELSE _validate_overlaps(segs)

_validate_segments(segs) ==
    IF segs = <<>>
    THEN Some(TravelRuleValidationError("empty", <<>>, "", ""))
    ELSE LET bad == {i \in 1..Len(segs) : segs[i].end <= segs[i].start}
         IN IF bad # {}
            THEN Some(TravelRuleValidationError(
                     "timespan", <<segs[Min(bad)].trip_id>>, "", ""))
            ELSE IF _validate_overlaps(segs) # None
                 THEN _validate_overlaps(segs)
                 ELSE _validate_duplicate_receipts(segs)

(***************************************************************************)
(* Rate Resolver: Some(rates), or None where it raises                     *)
(***************************************************************************)
\* faulty variant: the code is looked up as given, not upper-cased
_get_rates_for_country_case_sensitive(country_code) ==
    LET normalized == country_code
    IN IF normalized = "DE"
       THEN Some([full_day    |-> DOMESTIC_FULL_DAY_RATE,
                  partial_day |-> DOMESTIC_PARTIAL_DAY_RATE])
       ELSE IF normalized \notin DOMAIN INTERNATIONAL_RATE_TABLE
            THEN None
            ELSE Some(INTERNATIONAL_RATE_TABLE[normalized])

_get_rates_for_country(country_code) ==
    LET normalized == Upper(country_code)
    IN IF normalized = "DE"
       THEN Some([full_day    |-> DOMESTIC_FULL_DAY_RATE,
                  partial_day |-> DOMESTIC_PARTIAL_DAY_RATE])
       ELSE IF normalized \notin DOMAIN INTERNATIONAL_RATE_TABLE
            THEN None
            ELSE Some(INTERNATIONAL_RATE_TABLE[normalized])

RatesError(country_code) ==
    TravelRuleValidationError("country", <<>>, "", Upper(country_code))

(***************************************************************************)
(* Day Allocator: [amount, steps]                                          *)
(***************************************************************************)
MinimumHours == 8

\* faulty variant: only the first date is an arrival/departure date, the last one is
\* priced as a full day
RECURSIVE DayLoopFullLast(_, _, _, _, _)
DayLoopFullLast(current, start_day, end_day, rts, acc) ==
    IF current > end_day THEN acc
    ELSE IF current = start_day
         THEN DayLoopFullLast(current + 1, start_day, end_day, rts,
                  [total |-> DecAdd(acc.total, rts.partial_day),
                   steps |-> Append(acc.steps,
                       Line("arrival_departure", "", current, "", 0,
                            Str(rts.partial_day), NoAmount, NoAmount))])
         ELSE DayLoopFullLast(current + 1, start_day, end_day, rts,
                  [total |-> DecAdd(acc.total, rts.full_day),
                   steps |-> Append(acc.steps,
                       Line("full_day", "", current, "", 0,
                            Str(rts.full_day), NoAmount, NoAmount))])

\* the while loop over the calendar dates of a multi-day segment
RECURSIVE DayLoop(_, _, _, _, _)
DayLoop(current, start_day, end_day, rts, acc) ==
    IF current > end_day THEN acc
    ELSE IF current = start_day \/ current = end_day
         THEN DayLoop(current + 1, start_day, end_day, rts,
                  [total |-> DecAdd(acc.total, rts.partial_day),
                   steps |-> Append(acc.steps,
                       Line("arrival_departure", "", current, "", 0,
                            Str(rts.partial_day), NoAmount, NoAmount))])
         ELSE DayLoop(current + 1, start_day, end_day, rts,
                  [total |-> DecAdd(acc.total, rts.full_day),
                   steps |-> Append(acc.steps,
                       Line("full_day", "", current, "", 0,
                            Str(rts.full_day), NoAmount, NoAmount))])

\* faulty variant: the single-day gate is "more than 8 hours"
_calculate_day_allowance_strict(segment, rts) ==
    LET start_day == DateOf(segment.start)
        end_day   == DateOf(segment.end)
    IN IF start_day = end_day
       THEN LET seconds == TotalSeconds(segment.start, segment.end)
                hours   == FormatQuotient(seconds, SecondsPerHour, 2)
            IN IF seconds > MinimumHours * SecondsPerHour
               THEN [amount |-> _money(rts.partial_day),
                     steps  |-> << Line("single_day", "", start_day, ">= 8h",
                                        hours, Str(rts.partial_day),
                                        NoAmount, NoAmount) >>]
               ELSE [amount |-> _money(Dec(0, 2)),
                     steps  |-> << Line("single_day", "", start_day, "< 8h",
                                        hours, NoAmount, NoAmount, NoAmount) >>]
       ELSE LET loop == DayLoop(start_day, start_day, end_day, rts,
                                [total |-> Dec(0, 2), steps |-> <<>>])
            IN [amount |-> _money(loop.total), steps |-> loop.steps]

_calculate_day_allowance(segment, rts) ==
    LET start_day == DateOf(segment.start)
        end_day   == DateOf(segment.end)
    IN IF start_day = end_day
       THEN LET seconds == TotalSeconds(segment.start, segment.end)
                hours   == FormatQuotient(seconds, SecondsPerHour, 2)
            IN IF seconds >= MinimumHours * SecondsPerHour
               THEN [amount |-> _money(rts.partial_day),
                     steps  |-> << Line("single_day", "", start_day, ">= 8h",
                                        hours, Str(rts.partial_day),
                                        NoAmount, NoAmount) >>]
               ELSE [amount |-> _money(Dec(0, 2)),
                     steps  |-> << Line("single_day", "", start_day, "< 8h",
                                        hours, NoAmount, NoAmount, NoAmount) >>]
       ELSE LET loop == DayLoop(start_day, start_day, end_day, rts,
                                [total |-> Dec(0, 2), steps |-> <<>>])
            IN [amount |-> _money(loop.total), steps |-> loop.steps]

(***************************************************************************)
(* Meal Deduction Calculator: [amount, steps]                              *)
(***************************************************************************)
\* faulty variant: a date without a record takes the last record given,
\* whatever its day
ProvidedByDayOrLast(provided_meals, day) ==
    LET hits == {k \in 1..Len(provided_meals) : provided_meals[k].day = day}
    IN IF hits = {}
       THEN IF provided_meals = <<>> THEN None
            ELSE Some(provided_meals[Len(provided_meals)])
       ELSE Some(provided_meals[CHOOSE k \in hits : \A j \in hits : j <= k])

\* provided_by_day.get(day): the dict keeps the last entry of a day
ProvidedByDay(provided_meals, day) ==
    LET hits == {k \in 1..Len(provided_meals) : provided_meals[k].day = day}
    IN IF hits = {} THEN None
       ELSE Some(provided_meals[CHOOSE k \in hits : \A j \in hits : j <= k])

\* _money(full_day_rate * ratio)
MealAmount(full_day_rate, ratio) == _money(DecMul(full_day_rate, ratio))

\* the for loop over MEAL_DEDUCTION_RATES for one day's record
RECURSIVE MealLoop(_, _, _, _, _)
MealLoop(k, meals, current_day, full_day_rate, acc) ==
    IF k > Len(MEAL_DEDUCTION_RATES) THEN acc
    ELSE LET entry == MEAL_DEDUCTION_RATES[k]
         IN IF meals[entry.key]
            THEN LET deduction == MealAmount(full_day_rate, entry.ratio)
                 IN MealLoop(k + 1, meals, current_day, full_day_rate,
                        [total |-> DecAdd(acc.total, deduction),
                         steps |-> Append(acc.steps,
                             Line("meal", "", current_day, entry.key,
                                  FormatQuotient(
                                      DecMul(entry.ratio, Dec(100, 0)).c,
                                      Pow10(DecMul(entry.ratio, Dec(100, 0)).e),
                                      0),
                                  Str(deduction), NoAmount, NoAmount))])
            ELSE MealLoop(k + 1, meals, current_day, full_day_rate, acc)

\* the while loop over the calendar dates of the segment
RECURSIVE MealDayLoop(_, _, _, _)
MealDayLoop(current_day, segment, full_day_rate, acc) ==
    IF current_day > DateOf(segment.end) THEN acc
    ELSE LET meals == ProvidedByDay(segment.provided_meals, current_day)
         IN IF meals = None
            THEN MealDayLoop(current_day + 1, segment, full_day_rate, acc)
            ELSE LET day == MealLoop(1, meals[1], current_day, full_day_rate,
                                [total |-> Dec(0, 2), steps |-> acc.steps])
                 IN IF ~DecIsZero(day.total)
                    THEN MealDayLoop(current_day + 1, segment, full_day_rate,
                             [total |-> DecAdd(acc.total, day.total),
                              steps |-> Append(day.steps,
                                  Line("meal_subtotal", "", current_day, "", 0,
                                       Str(day.total), NoAmount, NoAmount))])
                    ELSE MealDayLoop(current_day + 1, segment, full_day_rate,
                             [total |-> acc.total, steps |-> day.steps])

\* faulty variant: the deductions are summed and returned at full precision, neither
\* the single deduction nor the segment's total is quantized
RECURSIVE FullPrecisionMealLoop(_, _, _, _)
FullPrecisionMealLoop(k, meals, full_day_rate, total) ==
    IF k > Len(MEAL_DEDUCTION_RATES) THEN total
    ELSE FullPrecisionMealLoop(k + 1, meals, full_day_rate,
             IF meals[MEAL_DEDUCTION_RATES[k].key]
             THEN DecAdd(total,
                      DecMul(full_day_rate, MEAL_DEDUCTION_RATES[k].ratio))
             ELSE total)

RECURSIVE FullPrecisionDayLoop(_, _, _, _)
FullPrecisionDayLoop(current_day, segment, full_day_rate, total) ==
    IF current_day > DateOf(segment.end) THEN total
    ELSE LET meals == ProvidedByDay(segment.provided_meals, current_day)
         IN FullPrecisionDayLoop(current_day + 1, segment, full_day_rate,
                IF meals = None THEN total
                ELSE DecAdd(total,
                         FullPrecisionMealLoop(1, meals[1], full_day_rate,
                                               Dec(0, 2))))

_calculate_meal_deductions_full_precision(segment, full_day_rate) ==
    [amount |-> FullPrecisionDayLoop(DateOf(segment.start), segment,
                                     full_day_rate, Dec(0, 2)),
     steps  |-> MealDayLoop(DateOf(segment.start), segment, full_day_rate,
                            [total |-> Dec(0, 2), steps |-> <<>>]).steps]

\* faulty variant: a segment without deductions gets no explanatory line
_calculate_meal_deductions_silent(segment, full_day_rate) ==
    LET loop == MealDayLoop(DateOf(segment.start), segment, full_day_rate,
                            [total |-> Dec(0, 2), steps |-> <<>>])
    IN [amount |-> _money(loop.total), steps |-> loop.steps]

_calculate_meal_deductions(segment, full_day_rate) ==
    LET loop == MealDayLoop(DateOf(segment.start), segment, full_day_rate,
                            [total |-> Dec(0, 2), steps |-> <<>>])
    IN [amount |-> _money(loop.total),
        steps  |-> IF DecIsZero(loop.total)
                   THEN Append(loop.steps,
                            Line("no_meal_deductions", segment.trip_id, 0 - 1,
                                 "", 0, NoAmount, NoAmount, NoAmount))
                   ELSE loop.steps]

(***************************************************************************)
(* Aggregator: the pieces of calculate's loop body and of its tail         *)
(***************************************************************************)
\* lines 90-95
RatesLine(segment, rts) ==
    Line("rates", segment.trip_id, 0 - 1,
         IF Upper(segment.country_code) = "DE" THEN "domestic"
                                               ELSE "international",
         0, Str(rts.full_day), Str(rts.partial_day), NoAmount)

\* faulty variant: a negative net is clamped to zero
ReimbursableClamped(day, meal) ==
    IF DecSub(day, meal).c < 0 THEN Dec(0, 2) ELSE _money(DecSub(day, meal))

\* line 103
Reimbursable(day, meal) == _money(DecSub(day, meal))

\* lines 107-109
SubtotalLine(segment, day, meal) ==
    Line("subtotal", segment.trip_id, 0 - 1, "", 0,
         Str(day), Str(meal), Str(Reimbursable(day, meal)))

\* lines 112-121
ByTripEntry(segment, day, meal, seg_steps) ==
    [trip_id           |-> segment.trip_id,
     country_code      |-> Upper(segment.country_code),
     gross_allowance   |-> Str(_money(day)),
     meal_deductions   |-> Str(_money(meal)),
     net_allowance     |-> Str(Reimbursable(day, meal)),
     calculation_steps |-> seg_steps]

\* faulty variant: the running gross total is fed the trip's net
GrossOperandNet(day, meal) == DecSub(day, meal)

\* lines 104-105: what the loop adds to the running totals
GrossOperand(day, meal) == day

MealOperand(day, meal) == meal

\* faulty variant: the net total forgets the deductions
TotalsNetOfGross(gross, meal) ==
    [gross_allowance |-> Str(_money(gross)),
     meal_deductions |-> Str(_money(meal)),
     net_allowance   |-> Str(_money(gross))]

\* lines 123-128
Totals(gross, meal) ==
    [gross_allowance |-> Str(_money(gross)),
     meal_deductions |-> Str(_money(meal)),
     net_allowance   |-> Str(_money(DecSub(gross, meal)))]

\* lines 130-132
OverallLine(totals) ==
    Line("overall", "", 0 - 1, "", 0, totals.gross_allowance,
         totals.meal_deductions, totals.net_allowance)

\* line 81
VersionLine == Line("version", "", 0 - 1, RULE_VERSION, 0,
                    NoAmount, NoAmount, NoAmount)

\* lines 134-139
Payload(totals, all_steps, trips) ==
    [rule_version      |-> RULE_VERSION,
     totals            |-> totals,
     calculation_steps |-> all_steps,
     by_trip           |-> trips]

(***************************************************************************)
(* calculate as a function of the batch: [raised, error, value]            *)
(***************************************************************************)
Raised(err) == [raised |-> TRUE, error |-> Some(err), value |-> None]

Returned(payload) == [raised |-> FALSE, error |-> None, value |-> Some(payload)]

RECURSIVE CalculateLoop(_, _)
CalculateLoop(rest, acc) ==
    IF rest = <<>>
    THEN LET totals == Totals(acc.gross_total, acc.meal_deduction_total)
         IN Returned(Payload(totals, Append(acc.steps, OverallLine(totals)),
                             acc.by_trip))
    ELSE LET segment == Head(rest)
             rts     == _get_rates_for_country(segment.country_code)
         IN IF rts = None THEN Raised(RatesError(segment.country_code))
            ELSE LET day  == _calculate_day_allowance(segment, rts[1])
                     meal == _calculate_meal_deductions(segment, rts[1].full_day)
                     seg_steps ==
                         Append(<<RatesLine(segment, rts[1])>> \o day.steps
                                    \o meal.steps,
                                SubtotalLine(segment, day.amount, meal.amount))
                 IN CalculateLoop(Tail(rest),
                        [steps   |-> acc.steps \o seg_steps,
                         by_trip |-> Append(acc.by_trip,
                             ByTripEntry(segment, day.amount, meal.amount,
                                         seg_steps)),
                         gross_total |-> DecAdd(acc.gross_total,
                             GrossOperand(day.amount, meal.amount)),
                         meal_deduction_total |->
                             DecAdd(acc.meal_deduction_total,
                                 MealOperand(day.amount, meal.amount))])

calculate(segs) ==
    IF _validate_segments(segs) # None
    THEN Raised(_validate_segments(segs)[1])
    ELSE CalculateLoop(ProcessingOrder(segs),
             [steps |-> <<VersionLine>>, by_trip |-> <<>>,
              gross_total |-> Dec(0, 2), meal_deduction_total |-> Dec(0, 2)])

(***************************************************************************)
(* One call of calculate, step by step                                     *)
(***************************************************************************)
\* line 79, the validator raises
ValidateRaise ==
    /\ pc = "call"
    /\ _validate_segments(segments) # None
    /\ error' = _validate_segments(segments)
    /\ pc' = "raised"
    /\ UNCHANGED <<segments, ordered, idx, steps, by_trip, gross_total,
                   meal_deduction_total, rates, segment_steps, day_allowance,
                   meal_deduction, result>>
    /\ UNCHANGED outsideCall

\* lines 79-87, the validator passes
ValidateOk ==
    /\ pc = "call"
    /\ _validate_segments(segments) = None
    /\ steps' = <<VersionLine>>
    /\ by_trip' = <<>>
    /\ gross_total' = Dec(0, 2)
    /\ meal_deduction_total' = Dec(0, 2)
    /\ ordered' = ProcessingOrder(segments)
    /\ idx' = 1
    /\ pc' = "loop"
    /\ UNCHANGED <<segments, rates, segment_steps, day_allowance,
                   meal_deduction, result, error>>
    /\ UNCHANGED outsideCall

\* lines 88-89, the rate lookup raises
RatesRaise ==
    /\ pc = "loop"
    /\ idx <= Len(ordered)
    /\ _get_rates_for_country(ordered[idx].country_code) = None
    /\ error' = Some(RatesError(ordered[idx].country_code))
    /\ pc' = "raised"
    /\ UNCHANGED <<segments, ordered, idx, steps, by_trip, gross_total,
                   meal_deduction_total, rates, segment_steps, day_allowance,
                   meal_deduction, result>>
    /\ UNCHANGED outsideCall

\* lines 88-95
RatesOk ==
    /\ pc = "loop"
    /\ idx <= Len(ordered)
    /\ _get_rates_for_country(ordered[idx].country_code) # None
    /\ rates' = _get_rates_for_country(ordered[idx].country_code)
    /\ segment_steps' = <<RatesLine(ordered[idx], rates'[1])>>
    /\ pc' = "day"
    /\ UNCHANGED <<segments, ordered, idx, steps, by_trip, gross_total,
                   meal_deduction_total, day_allowance, meal_deduction,
                   result, error>>
    /\ UNCHANGED outsideCall

\* lines 97-98
DayAllowance ==
    /\ pc = "day"
    /\ LET day == _calculate_day_allowance(ordered[idx], rates[1])
       IN /\ day_allowance' = Some(day.amount)
          /\ segment_steps' = segment_steps \o day.steps
    /\ pc' = "meal"
    /\ UNCHANGED <<segments, ordered, idx, steps, by_trip, gross_total,
                   meal_deduction_total, rates, meal_deduction, result, error>>
    /\ UNCHANGED outsideCall

\* faulty variant: the deduction is taken from the partial-day rate
MealDeductionsPartialBasis ==
    /\ pc = "meal"
    /\ LET meal == _calculate_meal_deductions(ordered[idx],
                                              rates[1].partial_day)
       IN /\ meal_deduction' = Some(meal.amount)
          /\ segment_steps' = segment_steps \o meal.steps
    /\ pc' = "accumulate"
    /\ UNCHANGED <<segments, ordered, idx, steps, by_trip, gross_total,
                   meal_deduction_total, rates, day_allowance, result, error>>
    /\ UNCHANGED outsideCall

\* lines 100-101
MealDeductions ==
    /\ pc = "meal"
    /\ LET meal == _calculate_meal_deductions(ordered[idx], rates[1].full_day)
       IN /\ meal_deduction' = Some(meal.amount)
          /\ segment_steps' = segment_steps \o meal.steps
    /\ pc' = "accumulate"
    /\ UNCHANGED <<segments, ordered, idx, steps, by_trip, gross_total,
                   meal_deduction_total, rates, day_allowance, result, error>>
    /\ UNCHANGED outsideCall

\* lines 103-121
Accumulate ==
    /\ pc = "accumulate"
    /\ LET segment == ordered[idx]
           day     == day_allowance[1]
           meal    == meal_deduction[1]
       IN /\ gross_total' = DecAdd(gross_total, GrossOperand(day, meal))
          /\ meal_deduction_total' =
                 DecAdd(meal_deduction_total, MealOperand(day, meal))
          /\ segment_steps' =
                 Append(segment_steps, SubtotalLine(segment, day, meal))
          /\ steps' = steps \o segment_steps'
          /\ by_trip' =
                 Append(by_trip, ByTripEntry(segment, day, meal, segment_steps'))
    /\ idx' = idx + 1
    /\ pc' = "loop"
    /\ UNCHANGED <<segments, ordered, rates, day_allowance, meal_deduction,
                   result, error>>
    /\ UNCHANGED outsideCall

\* lines 123-139
Finish ==
    /\ pc = "loop"
    /\ idx > Len(ordered)
    /\ LET totals == Totals(gross_total, meal_deduction_total)
       IN /\ steps' = Append(steps, OverallLine(totals))
          /\ result' = Some(Payload(totals, steps', by_trip))
    /\ pc' = "returned"
    /\ UNCHANGED <<segments, ordered, idx, by_trip, gross_total,
                   meal_deduction_total, rates, segment_steps, day_allowance,
                   meal_deduction, error>>
    /\ UNCHANGED outsideCall

Next ==
    \/ ValidateRaise
    \/ ValidateOk
    \/ RatesRaise
    \/ RatesOk
    \/ DayAllowance
    \/ MealDeductions
    \/ Accumulate
    \/ Finish

(***************************************************************************)
(* The checked batches                                                     *)
(***************************************************************************)
TripId(i) == "T" \o ToString(i)

Days == 0..(MaxDay - 1)

AllMeals == {DayMealProvision(d, b, l, n) :
                d \in Days, b \in BOOLEAN, l \in BOOLEAN, n \in BOOLEAN}

SomeMeals == {DayMealProvision(d, f[1], f[2], f[3]) :
                 d \in Days,
                 f \in {<<TRUE, FALSE, FALSE>>, <<FALSE, TRUE, TRUE>>,
                        <<FALSE, FALSE, FALSE>>}}

\* one segment, every timing regime, at most one meal record
StartMarks == {0, 480, 1439}

EndMarks == {1, 479, 480, 960, 1080, 1439}

PricingBatch ==
    \E d1 \in Days, m1 \in StartMarks, d2 \in Days, m2 \in EndMarks :
    \E c \in {"DE", "de", "CH", "ZZ"} :
    \E meals \in {<<>>} \cup {<<m>> : m \in AllMeals} :
        segments = <<TripSegment(TripId(1), At(d1, m1), At(d2, m2), c,
                                 meals, <<>>)>>

\* one segment, several meal records (a day may have more than one)
MealBatch ==
    \E span \in {<<At(0, 480), At(MaxDay - 1, 1080)>>,
                 <<At(1, 0), At(1, 480)>>} :
    \E c \in {"DE", "AT", "FR", "NL"} :
    \E n \in 2..MaxMeals :
    \E meals \in [1..n -> SomeMeals] :
        segments = <<TripSegment(TripId(1), span[1], span[2], c, meals, <<>>)>>

\* several segments (or none), every relative position of their spans
OverlapMarks == {At(0, 0), At(0, 480), At(1, 0), At(1, 480)}

\* the spans: every start <= end over the marks, and one end before its start
OverlapSpans ==
    {span \in OverlapMarks \X OverlapMarks : span[1] <= span[2]}
        \cup {<<At(1, 0), At(0, 480)>>}

OverlapBatch ==
    \E n \in 0..MaxSegs :
    \E f \in [1..n -> OverlapSpans] :
        segments = [i \in 1..n |->
                       TripSegment(TripId(i), f[i][1], f[i][2], "DE",
                                   <<>>, <<>>)]

\* several segments on disjoint slots, in several input orders, with countries,
\* meals and receipts
SlotStart(k) == At(2 * (k - 1), 480)

SlotEnd(k) ==
    CASE k % 3 = 1 -> At(2 * (k - 1) + 1, 1080)
      [] k % 3 = 2 -> At(2 * (k - 1), 1080)
      [] OTHER     -> At(2 * (k - 1), 720)

Profiles ==
    {[country |-> "DE", flags |-> <<>>, receipts |-> <<>>],
     [country |-> "CH", flags |-> <<TRUE, FALSE, FALSE>>,
      receipts |-> <<Receipt("r1")>>],
     [country |-> "ZZ", flags |-> <<>>, receipts |-> <<>>],
     [country |-> "de", flags |-> <<FALSE, TRUE, TRUE>>,
      receipts |-> <<Receipt("r2")>>],
     [country |-> "AT", flags |-> <<TRUE, TRUE, TRUE>>, receipts |-> <<>>],
     [country |-> "DE", flags |-> <<>>,
      receipts |-> <<Receipt("r3"), Receipt("r3")>>]}

SlotSegment(i, k, p) ==
    TripSegment(TripId(i), SlotStart(k), SlotEnd(k), p.country,
        IF p.flags = <<>> THEN <<>>
        ELSE <<DayMealProvision(DateOf(SlotStart(k)), p.flags[1], p.flags[2],
                                p.flags[3])>>,
        p.receipts)

\* the input orders of the slots: ascending, descending, rotated by one
SlotOrders(n) ==
    {[i \in 1..n |-> i], [i \in 1..n |-> n + 1 - i],
     [i \in 1..n |-> (i % n) + 1]}

SlotBatch ==
    \E n \in 1..MaxSegs :
    \E order \in SlotOrders(n), prof \in [1..n -> Profiles] :
        segments = [i \in 1..n |-> SlotSegment(i, order[i], prof[i])]

\* several segments, each of a shape that carries defects: a batch may have an
\* impossible span, an overlap, a repeated receipt id and unsupported country
\* codes at once, in an input order that is not the start order
DefectShapes ==
    {[start |-> At(0, 480), end |-> At(0, 1080), country |-> "US",
      receipts |-> <<Receipt("r2")>>],
     [start |-> At(0, 960), end |-> At(1, 480), country |-> "ZZ",
      receipts |-> <<Receipt("r1")>>],
     [start |-> At(2, 480), end |-> At(2, 1080), country |-> "ZZ",
      receipts |-> <<Receipt("r1")>>],
     [start |-> At(3, 480), end |-> At(3, 1080), country |-> "DE",
      receipts |-> <<>>],
     [start |-> At(1, 0), end |-> At(0, 480), country |-> "ZZ",
      receipts |-> <<Receipt("r1")>>],
     [start |-> At(0, 480), end |-> At(0, 0), country |-> "DE",
      receipts |-> <<Receipt("r2")>>]}

PrecedenceBatch ==
    \E n \in 2..MaxSegs :
    \E shape \in [1..n -> DefectShapes] :
        segments = [i \in 1..n |->
                       TripSegment(TripId(i), shape[i].start, shape[i].end,
                                   shape[i].country, <<>>, shape[i].receipts)]

(***************************************************************************)
(* One service object called by several callers.  What the calls share is  *)
(* the module's globals (the rates, the meal ratios, the rate table) and    *)
(* the class attribute rule_version; everything else is local to a call.   *)
(***************************************************************************)
MaxCallers == 2

MaxCalls == 3

Callers == 1..MaxCallers

\* the globals as the module defines them (lines 9-27) and line 62
GlobalsAtImport ==
    [rule_version              |-> RULE_VERSION,
     DOMESTIC_FULL_DAY_RATE    |-> DOMESTIC_FULL_DAY_RATE,
     DOMESTIC_PARTIAL_DAY_RATE |-> DOMESTIC_PARTIAL_DAY_RATE,
     MEAL_DEDUCTION_RATES      |-> MEAL_DEDUCTION_RATES,
     INTERNATIONAL_RATE_TABLE  |-> INTERNATIONAL_RATE_TABLE]

\* the locals of a caller that is not in a call
IdleCall ==
    [entry |-> "", segments |-> <<>>, pc |-> "idle", ordered |-> <<>>,
     idx |-> 0, steps |-> <<>>, by_trip |-> <<>>, gross_total |-> Dec(0, 2),
     meal_deduction_total |-> Dec(0, 2), rates |-> None,
     segment_steps |-> <<>>, day_allowance |-> None, meal_deduction |-> None,
     calculation |-> None]

SessionAtRest ==
    /\ calls = [c \in Callers |-> IdleCall]
    /\ shared = GlobalsAtImport
    /\ log = <<>>

\* no receipt, no trip, no base directory: the parts of the program a
\* specification does not run
ReceiptsAtRest ==
    /\ receipt_row = None
    /\ ownership = <<>>
    /\ corrected = <<>>
    /\ last_update = None
    /\ in_transaction = FALSE
    /\ in_flight = None

TripAtRest ==
    /\ expenses = <<>>
    /\ trip_change_log = <<>>
    /\ snapshot_files = {}
    /\ clock = 0
    /\ last_export = None

RetentionAtRest ==
    /\ files = {}
    /\ last_prune = None

\* the locals of the one call followed by Spec, when another specification runs
CallAtRest ==
    /\ segments = <<>>
    /\ pc = "idle"
    /\ ordered = <<>>
    /\ idx = 0
    /\ steps = <<>>
    /\ by_trip = <<>>
    /\ gross_total = Dec(0, 2)
    /\ meal_deduction_total = Dec(0, 2)
    /\ rates = None
    /\ segment_steps = <<>>
    /\ day_allowance = None
    /\ meal_deduction = None
    /\ result = None
    /\ error = None

\* two segments on disjoint slots, every casing of every code
CountryCodes ==
    {"DE", "De", "dE", "de", "AT", "At", "aT", "at", "CH", "Ch", "cH", "ch",
     "FR", "Fr", "fR", "fr", "NL", "Nl", "nL", "nl",
     "ZZ", "Zz", "zZ", "zz", "US", "us", "DEU", "deu", "D", ""}

CasingBatch ==
    \E c1 \in CountryCodes, c2 \in CountryCodes :
        segments = <<TripSegment(TripId(1), SlotStart(1), SlotEnd(1), c1,
                                 <<>>, <<>>),
                     TripSegment(TripId(2), SlotStart(2), SlotEnd(2), c2,
                                 <<>>, <<>>)>>

Init ==
    /\ (PricingBatch \/ MealBatch \/ OverlapBatch \/ SlotBatch \/ CasingBatch
           \/ PrecedenceBatch)
    /\ pc = "call"
    /\ ordered = <<>>
    /\ idx = 0
    /\ steps = <<>>
    /\ by_trip = <<>>
    /\ gross_total = Dec(0, 2)
    /\ meal_deduction_total = Dec(0, 2)
    /\ rates = None
    /\ segment_steps = <<>>
    /\ day_allowance = None
    /\ meal_deduction = None
    /\ result = None
    /\ error = None
    /\ SessionAtRest
    /\ ReceiptsAtRest
    /\ TripAtRest
    /\ RetentionAtRest

Spec == Init /\ [][Next]_vars

(***************************************************************************)
(* The steps of a call as the callers of one service object run them: what *)
(* a step reads of the globals it reads from `shared` at that moment.      *)
(***************************************************************************)
\* lines 254-265 on the globals g: None where it raises; otherwise how the
\* call holds the dict returned: lines 257-260 build a dict of the call's own,
\* line 265 returns the dict that is the table's entry
SharedLookup(g, country_code) ==
    LET normalized == Upper(country_code)
    IN IF normalized = "DE"
       THEN Some([shared_key |-> "",
                  own |-> Some([full_day    |-> g.DOMESTIC_FULL_DAY_RATE,
                                partial_day |-> g.DOMESTIC_PARTIAL_DAY_RATE])])
       ELSE IF normalized \notin DOMAIN g.INTERNATIONAL_RATE_TABLE
            THEN None
            ELSE Some([shared_key |-> normalized, own |-> None])

\* rates["full_day"], rates["partial_day"]: the dict the call holds, read now
RatesOf(g, r) ==
    IF r.shared_key = "" THEN r.own[1]
    ELSE g.INTERNATIONAL_RATE_TABLE[r.shared_key]

\* faulty variant: the lookup registers a code it does not find, with the
\* domestic rates
SharedAfterLookupInserting(g, country_code) ==
    LET normalized == Upper(country_code)
        table      == g.INTERNATIONAL_RATE_TABLE
    IN IF normalized = "DE" \/ normalized \in DOMAIN table THEN g
       ELSE [g EXCEPT !.INTERNATIONAL_RATE_TABLE =
                [k \in DOMAIN table \cup {normalized} |->
                    IF k \in DOMAIN table THEN table[k]
                    ELSE [full_day    |-> g.DOMESTIC_FULL_DAY_RATE,
                          partial_day |-> g.DOMESTIC_PARTIAL_DAY_RATE]]]

\* lines 254-265 write nothing: the globals after the lookup
SharedAfterLookup(g, country_code) == g

\* faulty variant: the day allocator keeps its total in the dict it was given
SharedAfterDayAllowanceAliased(g, r, amount) ==
    IF r.shared_key = "" THEN g
    ELSE [g EXCEPT !.INTERNATIONAL_RATE_TABLE[r.shared_key].partial_day =
                       amount]

\* lines 177-216 write nothing: the globals after the day allocation
SharedAfterDayAllowance(g, r, amount) == g

\* lines 234-242 over the meal ratios read from the globals
RECURSIVE MealLoopOver(_, _, _, _, _, _)
MealLoopOver(ratios, k, meals, current_day, full_day_rate, acc) ==
    IF k > Len(ratios) THEN acc
    ELSE LET entry == ratios[k]
         IN IF meals[entry.key]
            THEN LET deduction == MealAmount(full_day_rate, entry.ratio)
                 IN MealLoopOver(ratios, k + 1, meals, current_day,
                        full_day_rate,
                        [total |-> DecAdd(acc.total, deduction),
                         steps |-> Append(acc.steps,
                             Line("meal", "", current_day, entry.key,
                                  FormatQuotient(
                                      DecMul(entry.ratio, Dec(100, 0)).c,
                                      Pow10(DecMul(entry.ratio, Dec(100, 0)).e),
                                      0),
                                  Str(deduction), NoAmount, NoAmount))])
            ELSE MealLoopOver(ratios, k + 1, meals, current_day,
                              full_day_rate, acc)

\* lines 227-247
RECURSIVE MealDayLoopOver(_, _, _, _, _)
MealDayLoopOver(ratios, current_day, segment, full_day_rate, acc) ==
    IF current_day > DateOf(segment.end) THEN acc
    ELSE LET meals == ProvidedByDay(segment.provided_meals, current_day)
         IN IF meals = None
            THEN MealDayLoopOver(ratios, current_day + 1, segment,
                                 full_day_rate, acc)
            ELSE LET day == MealLoopOver(ratios, 1, meals[1], current_day,
                                full_day_rate,
                                [total |-> Dec(0, 2), steps |-> acc.steps])
                 IN IF ~DecIsZero(day.total)
                    THEN MealDayLoopOver(ratios, current_day + 1, segment,
                             full_day_rate,
                             [total |-> DecAdd(acc.total, day.total),
                              steps |-> Append(day.steps,
                                  Line("meal_subtotal", "", current_day, "", 0,
                                       Str(day.total), NoAmount, NoAmount))])
                    ELSE MealDayLoopOver(ratios, current_day + 1, segment,
                             full_day_rate,
                             [total |-> acc.total, steps |-> day.steps])

\* lines 218-252
MealDeductionsOver(ratios, segment, full_day_rate) ==
    LET loop == MealDayLoopOver(ratios, DateOf(segment.start), segment,
                                full_day_rate,
                                [total |-> Dec(0, 2), steps |-> <<>>])
    IN [amount |-> _money(loop.total),
        steps  |-> IF DecIsZero(loop.total)
                   THEN Append(loop.steps,
                            Line("no_meal_deductions", segment.trip_id, 0 - 1,
                                 "", 0, NoAmount, NoAmount, NoAmount))
                   ELSE loop.steps]

\* line 81 with self.rule_version read from the class
VersionLineOf(rule_version) ==
    Line("version", "", 0 - 1, rule_version, 0, NoAmount, NoAmount, NoAmount)

\* lines 134-139
PayloadOf(rule_version, totals, all_steps, trips) ==
    [rule_version      |-> rule_version,
     totals            |-> totals,
     calculation_steps |-> all_steps,
     by_trip           |-> trips]

\* faulty variant: the payload for persistence leaves the trace out
PersistPayloadWithoutSteps(rule_version, calculation) ==
    [rule_version      |-> rule_version,
     totals            |-> calculation.totals,
     calculation_steps |-> <<>>,
     by_trip           |-> calculation.by_trip]

\* lines 71-76
PersistPayload(rule_version, calculation) ==
    [rule_version      |-> rule_version,
     totals            |-> calculation.totals,
     calculation_steps |-> calculation.calculation_steps,
     by_trip           |-> calculation.by_trip]

Running(c) == calls[c].pc # "idle"

\* an ended call: its entry point, its batch, what it returned or raised, and
\* whether another call was running when it ended
Ended(c, outcome) ==
    [entry |-> calls[c].entry, segments |-> calls[c].segments,
     outcome |-> outcome,
     concurrent |-> \E o \in Callers \ {c} : Running(o)]

Started == Len(log) + Cardinality({c \in Callers : Running(c)})

\* the batches the callers hand in
PricedBatch ==
    <<TripSegment(TripId(1), SlotStart(2), SlotEnd(2), "de",
          <<DayMealProvision(DateOf(SlotStart(2)), FALSE, TRUE, TRUE)>>,
          <<Receipt("r1")>>),
      TripSegment(TripId(2), SlotStart(1), SlotEnd(1), "CH",
          <<DayMealProvision(DateOf(SlotEnd(1)), TRUE, FALSE, FALSE)>>,
          <<Receipt("r2")>>)>>

UnsupportedBatch ==
    <<TripSegment(TripId(1), SlotStart(1), SlotEnd(1), "zz", <<>>, <<>>)>>

OverlappingBatch ==
    <<TripSegment(TripId(1), SlotStart(1), SlotEnd(1), "DE", <<>>, <<>>),
      TripSegment(TripId(2), SlotStart(1), SlotEnd(1), "AT", <<>>, <<>>)>>

\* the calls made: entry point and batch
SessionCalls ==
    {<<"calculate", PricedBatch>>, <<"calculate_and_persist", PricedBatch>>,
     <<"calculate", UnsupportedBatch>>,
     <<"calculate_and_persist", OverlappingBatch>>}

\* a caller calls calculate or calculate_and_persist; the callers differ in
\* nothing but their name, so a new call is given to the first one free
Invoke(c) ==
    /\ ~Running(c)
    /\ \A o \in Callers : o < c => Running(o)
    /\ Started < MaxCalls
    /\ \E call \in SessionCalls :
          calls' = [calls EXCEPT ![c] =
                       [IdleCall EXCEPT !.entry = call[1],
                                        !.segments = call[2],
                                        !.pc = "call"]]
    /\ UNCHANGED <<shared, log, outsideSession>>

\* line 79, the validator raises
CallValidateRaise(c) ==
    /\ calls[c].pc = "call"
    /\ _validate_segments(calls[c].segments) # None
    /\ log' = Append(log, Ended(c,
                  Raised(_validate_segments(calls[c].segments)[1])))
    /\ calls' = [calls EXCEPT ![c] = IdleCall]
    /\ UNCHANGED <<shared, outsideSession>>

\* lines 79-87
CallValidateOk(c) ==
    /\ calls[c].pc = "call"
    /\ _validate_segments(calls[c].segments) = None
    /\ calls' = [calls EXCEPT
           ![c].steps = <<VersionLineOf(shared.rule_version)>>,
           ![c].by_trip = <<>>,
           ![c].gross_total = Dec(0, 2),
           ![c].meal_deduction_total = Dec(0, 2),
           ![c].ordered = ProcessingOrder(calls[c].segments),
           ![c].idx = 1,
           ![c].pc = "loop"]
    /\ UNCHANGED <<shared, log, outsideSession>>

\* lines 88-89, the rate lookup raises
CallRatesRaise(c) ==
    LET l == calls[c]
    IN /\ l.pc = "loop"
       /\ l.idx <= Len(l.ordered)
       /\ SharedLookup(shared, l.ordered[l.idx].country_code) = None
       /\ log' = Append(log, Ended(c,
                     Raised(RatesError(l.ordered[l.idx].country_code))))
       /\ shared' = SharedAfterLookup(shared, l.ordered[l.idx].country_code)
       /\ calls' = [calls EXCEPT ![c] = IdleCall]
       /\ UNCHANGED outsideSession

\* lines 88-95
CallRatesOk(c) ==
    LET l == calls[c]
    IN /\ l.pc = "loop"
       /\ l.idx <= Len(l.ordered)
       /\ SharedLookup(shared, l.ordered[l.idx].country_code) # None
       /\ LET r == SharedLookup(shared, l.ordered[l.idx].country_code)
          IN calls' = [calls EXCEPT
                 ![c].rates = r,
                 ![c].segment_steps =
                     <<RatesLine(l.ordered[l.idx], RatesOf(shared, r[1]))>>,
                 ![c].pc = "day"]
       /\ shared' = SharedAfterLookup(shared, l.ordered[l.idx].country_code)
       /\ UNCHANGED <<log, outsideSession>>

\* lines 97-98
CallDayAllowance(c) ==
    LET l   == calls[c]
        day == _calculate_day_allowance(l.ordered[l.idx],
                                        RatesOf(shared, l.rates[1]))
    IN /\ l.pc = "day"
       /\ calls' = [calls EXCEPT
              ![c].day_allowance = Some(day.amount),
              ![c].segment_steps = l.segment_steps \o day.steps,
              ![c].pc = "meal"]
       /\ shared' = SharedAfterDayAllowance(shared, l.rates[1], day.amount)
       /\ UNCHANGED <<log, outsideSession>>

\* lines 100-101
CallMealDeductions(c) ==
    LET l    == calls[c]
        meal == MealDeductionsOver(shared.MEAL_DEDUCTION_RATES,
                    l.ordered[l.idx], RatesOf(shared, l.rates[1]).full_day)
    IN /\ l.pc = "meal"
       /\ calls' = [calls EXCEPT
              ![c].meal_deduction = Some(meal.amount),
              ![c].segment_steps = l.segment_steps \o meal.steps,
              ![c].pc = "accumulate"]
       /\ UNCHANGED <<shared, log, outsideSession>>

\* lines 103-121
CallAccumulate(c) ==
    LET l         == calls[c]
        segment   == l.ordered[l.idx]
        day       == l.day_allowance[1]
        meal      == l.meal_deduction[1]
        seg_steps == Append(l.segment_steps, SubtotalLine(segment, day, meal))
    IN /\ l.pc = "accumulate"
       /\ calls' = [calls EXCEPT
              ![c].gross_total =
                  DecAdd(l.gross_total, GrossOperand(day, meal)),
              ![c].meal_deduction_total =
                  DecAdd(l.meal_deduction_total, MealOperand(day, meal)),
              ![c].segment_steps = seg_steps,
              ![c].steps = l.steps \o seg_steps,
              ![c].by_trip =
                  Append(l.by_trip, ByTripEntry(segment, day, meal, seg_steps)),
              ![c].idx = l.idx + 1,
              ![c].pc = "loop"]
       /\ UNCHANGED <<shared, log, outsideSession>>

\* lines 123-139: calculate returns, to its caller or to line 70 of
\* calculate_and_persist
CallFinish(c) ==
    LET l       == calls[c]
        totals  == Totals(l.gross_total, l.meal_deduction_total)
        payload == PayloadOf(shared.rule_version, totals,
                             Append(l.steps, OverallLine(totals)), l.by_trip)
    IN /\ l.pc = "loop"
       /\ l.idx > Len(l.ordered)
       /\ IF l.entry = "calculate"
          THEN /\ log' = Append(log, Ended(c, Returned(payload)))
               /\ calls' = [calls EXCEPT ![c] = IdleCall]
          ELSE /\ calls' = [calls EXCEPT
                      ![c].steps = payload.calculation_steps,
                      ![c].calculation = Some(payload),
                      ![c].pc = "returned"]
               /\ log' = log
       /\ UNCHANGED <<shared, outsideSession>>

\* lines 71-76
CallPersist(c) ==
    LET l == calls[c]
    IN /\ l.pc = "returned"
       /\ log' = Append(log, Ended(c,
                     Returned(PersistPayload(shared.rule_version,
                                             l.calculation[1]))))
       /\ calls' = [calls EXCEPT ![c] = IdleCall]
       /\ UNCHANGED <<shared, outsideSession>>

SessionNext ==
    \E c \in Callers :
        \/ Invoke(c)
        \/ CallValidateRaise(c)
        \/ CallValidateOk(c)
        \/ CallRatesRaise(c)
        \/ CallRatesOk(c)
        \/ CallDayAllowance(c)
        \/ CallMealDeductions(c)
        \/ CallAccumulate(c)
        \/ CallFinish(c)
        \/ CallPersist(c)

SessionInit ==
    /\ SessionAtRest
    /\ CallAtRest
    /\ ReceiptsAtRest
    /\ TripAtRest
    /\ RetentionAtRest

SessionSpec == SessionInit /\ [][SessionNext]_vars

(***************************************************************************)
(* Properties                                                              *)
(***************************************************************************)
Raises(kind) == pc = "raised" /\ error # None /\ error[1].kind = kind

\* a.start < b.end and b.start < a.end
Intersect(a, b) == a.start < b.end /\ b.start < a.end

PairwiseOverlap(segs) ==
    \E i, j \in 1..Len(segs) : i # j /\ Intersect(segs[i], segs[j])

WellTimed(segs) ==
    segs # <<>> /\ \A i \in 1..Len(segs) : segs[i].end > segs[i].start

\* C1: for a non-empty batch whose segments all have end > start, calculate
\* raises the overlap error if and only if two distinct segments of the
\* batch, adjacent in start order or not, intersect; segments that touch are
\* accepted, segments with the same start are rejected.
C1_OverlapIffPairwise ==
    (pc # "call" /\ WellTimed(segments)) =>
        /\ Raises("overlap") <=> PairwiseOverlap(segments)
        /\ (\E i, j \in 1..Len(segments) :
               i # j /\ segments[i].start = segments[j].start)
               => Raises("overlap")
        /\ (\A i, j \in 1..Len(segments) :
               i # j => \/ segments[i].end <= segments[j].start
                        \/ segments[j].end <= segments[i].start)
               => ~Raises("overlap")

\* the overlap error is raised for a batch of three in which the first and the
\* last segment in start order intersect
C1_Witness ==
    /\ Raises("overlap")
    /\ WellTimed(segments)
    /\ Len(segments) = 3
    /\ LET o == SortedByStart(segments)
       IN /\ o[1].start < o[2].start
          /\ o[2].start < o[3].start
          /\ Intersect(o[1], o[3])

NothingComputed ==
    /\ rates = None
    /\ day_allowance = None
    /\ meal_deduction = None
    /\ segment_steps = <<>>
    /\ by_trip = <<>>
    /\ steps = <<>>
    /\ idx = 0

\* C2, as claimed: whenever calculate raises a precondition error, the
\* unsupported-country-code error included, no segment of the batch has had
\* its day allowance or meal deduction computed and no result is returned.
C2_NoComputationBeforeAnyError ==
    pc = "raised" =>
        /\ day_allowance = None
        /\ meal_deduction = None
        /\ by_trip = <<>>
        /\ result = None

\* C2, amended: no error returns a result; an error of the Validator is raised
\* before any monetary computation; the unsupported-country-code error is
\* raised in the loop, when exactly the segments that precede the offending
\* one in start order have had their day allowance and meal deduction
\* computed, and neither the offending segment nor any later one.
C2_ErrorsAndComputation ==
    pc = "raised" =>
        /\ result = None
        /\ error # None
        /\ error[1].kind # "country" => NothingComputed
        /\ error[1].kind = "country" =>
              /\ idx \in 1..Len(ordered)
              /\ Upper(ordered[idx].country_code) = error[1].code
              /\ Len(by_trip) = idx - 1
              /\ \A k \in 1..Len(by_trip) :
                    /\ by_trip[k].trip_id = ordered[k].trip_id
                    /\ ordered[k].start < ordered[idx].start
              /\ \A i \in 1..Len(segments) :
                    segments[i].start >= ordered[idx].start =>
                        \A k \in 1..Len(by_trip) :
                            by_trip[k].trip_id # segments[i].trip_id

\* the country-code error is raised after an earlier segment was priced
C2_Witness ==
    /\ Raises("country")
    /\ by_trip # <<>>
    /\ day_allowance # None
    /\ meal_deduction # None

HasDuplicateReceipt(segs) ==
    \E i, j \in 1..Len(segs) :
        \E k \in 1..Len(segs[i].receipts), l \in 1..Len(segs[j].receipts) :
            /\ <<i, k>> # <<j, l>>
            /\ segs[i].receipts[k].receipt_id = segs[j].receipts[l].receipt_id

\* what the Validator rejects: an empty batch, a segment with end <= start,
\* intersecting segments, a receipt id that occurs twice
Rejected(segs) ==
    \/ segs = <<>>
    \/ \E i \in 1..Len(segs) : segs[i].end <= segs[i].start
    \/ PairwiseOverlap(segs)
    \/ HasDuplicateReceipt(segs)

\* C3: when the Validator rejects the batch, calculate raises before the first
\* rate lookup, day-allocation step or meal-deduction step of any segment, and
\* returns no result.
C3_ValidatorRaisesFirst ==
    /\ (Rejected(segments) /\ pc # "call") =>
          /\ pc = "raised"
          /\ error # None
          /\ error[1].kind \in {"empty", "timespan", "overlap", "duplicate"}
          /\ NothingComputed
          /\ result = None
    /\ (pc = "raised" /\ error # None /\ error[1].kind # "country") =>
          Rejected(segments) /\ NothingComputed

\* a batch of well-timed, disjoint segments is rejected for a duplicate
\* receipt id, the last check of the Validator, with nothing computed
C3_Witness ==
    /\ Raises("duplicate")
    /\ Len(segments) >= 2
    /\ NothingComputed
    /\ result = None

\* the amount a 2-place money string displays, in cents
Cents(str) == (IF str.neg THEN 0 - 1 ELSE 1) * (str.units * 100 + str.frac)

\* the string of a non-negative amount of euros and cents, "14.00"
Display(units, frac) ==
    [neg |-> FALSE, units |-> units, frac |-> frac, places |-> 2]

TwoPlaces(entry) ==
    /\ entry.gross_allowance.places = 2
    /\ entry.meal_deductions.places = 2
    /\ entry.net_allowance.places = 2

\* the segment of the batch a by_trip entry belongs to
SegmentOf(entry) ==
    segments[CHOOSE i \in 1..Len(segments) :
                 segments[i].trip_id = entry.trip_id]

\* the rates of a supported country, in cents
FullCents(code) ==
    IF Upper(code) = "DE" THEN 2800
    ELSE INTERNATIONAL_RATE_TABLE[Upper(code)].full_day.c

PartialCents(code) ==
    IF Upper(code) = "DE" THEN 1400
    ELSE INTERNATIONAL_RATE_TABLE[Upper(code)].partial_day.c

\* number of calendar dates of a segment's span, both ends included
Dates(seg) == DateOf(seg.end) - DateOf(seg.start) + 1

\* C4: a segment whose start and end fall on the same calendar date has the
\* partial-day rate of its country as gross allowance when end - start is at
\* least 8 hours, exactly 8 hours included, and 0.00 when it is less; for DE
\* that is 14.00 and 0.00.
C4_SingleDayGate ==
    \A k \in 1..Len(by_trip) :
        LET seg == SegmentOf(by_trip[k])
        IN Dates(seg) = 1 =>
              /\ by_trip[k].gross_allowance.places = 2
              /\ seg.end - seg.start >= 8 * 60 =>
                    Cents(by_trip[k].gross_allowance)
                        = PartialCents(seg.country_code)
              /\ seg.end - seg.start < 8 * 60 =>
                    by_trip[k].gross_allowance = Display(0, 0)
              /\ (Upper(seg.country_code) = "DE"
                     /\ seg.end - seg.start >= 8 * 60) =>
                    by_trip[k].gross_allowance = Display(14, 0)

\* a domestic segment of exactly 8 hours within one date is priced 14.00
C4_Witness ==
    \E k \in 1..Len(by_trip) :
        LET seg == SegmentOf(by_trip[k])
        IN /\ Dates(seg) = 1
           /\ seg.end - seg.start = 8 * 60
           /\ seg.country_code = "DE"
           /\ by_trip[k].gross_allowance = Display(14, 0)

\* C5: a segment whose span covers n >= 2 calendar dates has the gross
\* allowance 2 x partial-day rate + (n - 2) x full-day rate of its country,
\* whatever the hours spent on the first and the last date; for DE with
\* n = 3 that is 56.00.
C5_MultiDayAllowance ==
    \A k \in 1..Len(by_trip) :
        LET seg == SegmentOf(by_trip[k])
            n   == Dates(seg)
        IN n >= 2 =>
              /\ by_trip[k].gross_allowance.places = 2
              /\ Cents(by_trip[k].gross_allowance)
                    = 2 * PartialCents(seg.country_code)
                      + (n - 2) * FullCents(seg.country_code)
              /\ (Upper(seg.country_code) = "DE" /\ n = 3) =>
                    by_trip[k].gross_allowance = Display(56, 0)

\* a domestic segment over three dates, one minute on the first and one on the
\* last, is priced 56.00
C5_Witness ==
    \E k \in 1..Len(by_trip) :
        LET seg == SegmentOf(by_trip[k])
        IN /\ Dates(seg) = 3
           /\ seg.start % MinutesPerDay = MinutesPerDay - 1
           /\ seg.end % MinutesPerDay = 1
           /\ Upper(seg.country_code) = "DE"
           /\ by_trip[k].gross_allowance = Display(56, 0)

RECURSIVE SumOver(_, _)
SumOver(f, S) ==
    IF S = {} THEN 0
    ELSE LET x == CHOOSE y \in S : TRUE IN f[x] + SumOver(f, S \ {x})

\* round-half-up to whole cents of (cents x percent) / 100, cents >= 0
PercentOf(cents, percent) == (cents * percent + 50) \div 100

\* the dates of the span that have a record; where a date has several records
\* the last one given is the date's record
RecordedDates(seg) ==
    {d \in DateOf(seg.start)..DateOf(seg.end) :
        \E r \in 1..Len(seg.provided_meals) : seg.provided_meals[r].day = d}

RecordOf(seg, d) ==
    LET of == {r \in 1..Len(seg.provided_meals) :
                  seg.provided_meals[r].day = d}
    IN seg.provided_meals[CHOOSE r \in of : \A q \in of : q <= r]

ExpectedDeductionCents(seg) ==
    LET full == FullCents(seg.country_code)
    IN SumOver([d \in RecordedDates(seg) |->
                   (IF RecordOf(seg, d).breakfast THEN PercentOf(full, 20)
                                                  ELSE 0)
                   + (IF RecordOf(seg, d).lunch THEN PercentOf(full, 40) ELSE 0)
                   + (IF RecordOf(seg, d).dinner THEN PercentOf(full, 40)
                                                 ELSE 0)],
               RecordedDates(seg))

\* C6: a segment's meal deduction is the sum, over every calendar date of its
\* span that has a DayMealProvision record and over every meal marked true on
\* that record, of round-half-up-to-2-places(full-day rate of the segment's
\* country x ratio), with breakfast 20%, lunch 40%, dinner 40%; the basis is
\* the full-day rate also on arrival and departure dates and for a single-day
\* segment priced at the partial rate or at zero.
C6_MealDeduction ==
    \A k \in 1..Len(by_trip) :
        /\ by_trip[k].meal_deductions.places = 2
        /\ Cents(by_trip[k].meal_deductions)
              = ExpectedDeductionCents(SegmentOf(by_trip[k]))

\* a domestic single-day segment under 8 hours, priced 0.00, with breakfast
\* provided: the deduction is 5.60
C6_Witness ==
    \E k \in 1..Len(by_trip) :
        LET seg == SegmentOf(by_trip[k])
        IN /\ Dates(seg) = 1
           /\ by_trip[k].gross_allowance = Display(0, 0)
           /\ seg.provided_meals
                 = <<DayMealProvision(DateOf(seg.start), TRUE, FALSE, FALSE)>>
           /\ Upper(seg.country_code) = "DE"
           /\ by_trip[k].meal_deductions = Display(5, 60)

\* C7: for every trip in by_trip, net_allowance = quantize(gross_allowance -
\* meal_deductions) of that trip; the domestic 3-day segment with breakfast
\* and lunch provided on the middle day has 56.00, 16.80 and 39.20.
C7_NetIsGrossMinusDeductions ==
    \A k \in 1..Len(by_trip) :
        /\ TwoPlaces(by_trip[k])
        /\ Cents(by_trip[k].net_allowance)
              = Cents(by_trip[k].gross_allowance)
                - Cents(by_trip[k].meal_deductions)

\* the 3-day domestic segment 08:00 to 18:00 with breakfast and lunch on the
\* middle day: 56.00 - 16.80 = 39.20
C7_Witness ==
    \E k \in 1..Len(by_trip) :
        LET seg == SegmentOf(by_trip[k])
        IN /\ seg.start = At(0, 480)
           /\ seg.end = At(2, 1080)
           /\ seg.country_code = "DE"
           /\ seg.provided_meals = <<DayMealProvision(1, TRUE, TRUE, FALSE)>>
           /\ by_trip[k].gross_allowance = Display(56, 0)
           /\ by_trip[k].meal_deductions = Display(16, 80)
           /\ by_trip[k].net_allowance = Display(39, 20)

Supported(code) ==
    Upper(code) = "DE" \/ Upper(code) \in DOMAIN INTERNATIONAL_RATE_TABLE

\* non-empty, every end > start, supported country codes, no two segments
\* intersect, receipt ids unique
ValidBatch(segs) ==
    /\ WellTimed(segs)
    /\ \A i \in 1..Len(segs) : Supported(segs[i].country_code)
    /\ ~PairwiseOverlap(segs)
    /\ ~HasDuplicateReceipt(segs)

\* the sums of what the by_trip entries display, in cents
SumGross(trips) ==
    SumOver([k \in 1..Len(trips) |-> Cents(trips[k].gross_allowance)],
            1..Len(trips))

SumDeductions(trips) ==
    SumOver([k \in 1..Len(trips) |-> Cents(trips[k].meal_deductions)],
            1..Len(trips))

SumNet(trips) ==
    SumOver([k \in 1..Len(trips) |-> Cents(trips[k].net_allowance)],
            1..Len(trips))

\* C8: for every valid batch that is non-overlapping and has unique receipt
\* ids, calculate succeeds (the Validator passes, every rate lookup succeeds,
\* no step raises, and it returns one by_trip entry per segment) and
\* |totals.net_allowance - sum of by_trip[i].net_allowance| <= 0.01 x trips.
C8_ValidBatchSucceedsDriftBounded ==
    ValidBatch(segments) =>
        /\ pc # "raised"
        /\ error = None
        /\ pc = "call" => _validate_segments(segments) = None
        /\ (pc = "loop" /\ idx <= Len(ordered)) =>
              _get_rates_for_country(ordered[idx].country_code) # None
        /\ pc \in {"call", "loop", "day", "meal", "accumulate", "returned"}
        /\ pc = "returned" =>
              /\ result # None
              /\ Len(result[1].by_trip) = Len(segments)
              /\ result[1].totals.net_allowance.places = 2
              /\ Abs(Cents(result[1].totals.net_allowance)
                     - SumNet(result[1].by_trip)) <= 1 * Len(result[1].by_trip)

\* calculate has returned for a valid batch of several trips, one of them with
\* a meal deduction
C8_Witness ==
    /\ pc = "returned"
    /\ ValidBatch(segments)
    /\ Len(result[1].by_trip) >= 2
    /\ Cents(result[1].totals.meal_deductions) > Len(result[1].by_trip)

\* the segment's deduction at full precision: the products full-day rate x
\* ratio of the meals provided, summed, nothing quantized
FullPrecisionDeduction(segment, full_day_rate) ==
    FullPrecisionDayLoop(DateOf(segment.start), segment, full_day_rate,
                         Dec(0, 2))

\* C9, as claimed: the per-segment amounts that calculate adds to the running
\* totals are unquantized, full-precision amounts (the deduction of a segment
\* with breakfast provided on a domestic day is the product 28.00 x 0.20 =
\* 5.6000, not its quantization 5.60).
C9_AccumulatesFullPrecision ==
    pc = "accumulate" =>
        MealOperand(day_allowance[1], meal_deduction[1])
            = FullPrecisionDeduction(ordered[idx], rates[1].full_day)

\* C9, amended: the per-segment amounts that calculate adds to the running
\* totals are already quantized to two places by the day allocator and the
\* meal calculator, so the running totals have two places throughout, the
\* quantization of the grand totals at the very end changes nothing, and the
\* grand gross and deduction totals are the sums of the rounded per-trip
\* values.
C9_AccumulatesQuantized ==
    /\ gross_total.e = 2
    /\ meal_deduction_total.e = 2
    /\ pc = "accumulate" =>
          /\ GrossOperand(day_allowance[1], meal_deduction[1])
                = _money(day_allowance[1])
          /\ MealOperand(day_allowance[1], meal_deduction[1])
                = _money(meal_deduction[1])
          /\ DecEq(meal_deduction[1],
                   FullPrecisionDeduction(ordered[idx], rates[1].full_day))
    /\ pc = "returned" =>
          /\ result[1].totals.gross_allowance = Str(gross_total)
          /\ result[1].totals.meal_deductions = Str(meal_deduction_total)
          /\ Cents(result[1].totals.gross_allowance)
                = SumGross(result[1].by_trip)
          /\ Cents(result[1].totals.meal_deductions)
                = SumDeductions(result[1].by_trip)

\* a segment with a meal provided is about to be added to the running totals:
\* its deduction has two places where the product has four
C9_Witness ==
    /\ pc = "accumulate"
    /\ ~DecIsZero(meal_deduction[1])
    /\ meal_deduction[1].e = 2
    /\ FullPrecisionDeduction(ordered[idx], rates[1].full_day).e = 4

RECURSIVE Flatten(_)
Flatten(blocks) ==
    IF blocks = <<>> THEN <<>> ELSE Head(blocks) \o Flatten(Tail(blocks))

\* the permutations of 1..n
Orders(n) == {f \in [1..n -> 1..n] : \A i, j \in 1..n : f[i] = f[j] => i = j}

Permuted(segs, order) == [i \in 1..Len(segs) |-> segs[order[i]]]

\* C10: by_trip and the per-trip blocks of calculation_steps are in ascending
\* order of segment start whatever the input order, and for every permutation
\* of the batch calculate returns the identical payload or fails for both.
C10_OrderIndependent ==
    /\ \A k, l \in 1..Len(by_trip) :
          k < l => SegmentOf(by_trip[k]).start < SegmentOf(by_trip[l]).start
    /\ pc = "returned" =>
          /\ result[1].by_trip = by_trip
          /\ result[1].calculation_steps
                = <<VersionLine>>
                  \o Flatten([k \in 1..Len(by_trip) |->
                                 by_trip[k].calculation_steps])
                  \o <<OverallLine(result[1].totals)>>
          /\ \A order \in Orders(Len(segments)) :
                LET other == calculate(Permuted(segments, order))
                IN ~other.raised /\ other.value = result
    /\ pc = "raised" =>
          \A order \in Orders(Len(segments)) :
              calculate(Permuted(segments, order)).raised

\* calculate has returned for a batch given in descending order of start
C10_Witness ==
    /\ pc = "returned"
    /\ Len(segments) >= 3
    /\ \A i \in 1..(Len(segments) - 1) :
          segments[i].start > segments[i + 1].start
    /\ by_trip[1].trip_id = segments[Len(segments)].trip_id

\* the positions <<segment, receipt>> of the batch's receipts; the scan visits
\* them segment by segment in input order, receipt by receipt
ReceiptPositions(segs) ==
    UNION {{<<i, k>> : k \in 1..Len(segs[i].receipts)} : i \in 1..Len(segs)}

Before(p, q) == p[1] < q[1] \/ (p[1] = q[1] /\ p[2] < q[2])

ReceiptIdAt(segs, p) == segs[p[1]].receipts[p[2]].receipt_id

\* the positions whose id occurred at an earlier position
Reoccurrences(segs) ==
    {p \in ReceiptPositions(segs) :
        \E q \in ReceiptPositions(segs) :
            Before(q, p) /\ ReceiptIdAt(segs, q) = ReceiptIdAt(segs, p)}

FirstReoccurrence(segs) ==
    CHOOSE p \in Reoccurrences(segs) :
        \A q \in Reoccurrences(segs) : q = p \/ Before(p, q)

\* the position that introduced the id found at position p
Introduction(segs, p) ==
    CHOOSE q \in ReceiptPositions(segs) :
        /\ ReceiptIdAt(segs, q) = ReceiptIdAt(segs, p)
        /\ \A r \in ReceiptPositions(segs) :
              ReceiptIdAt(segs, r) = ReceiptIdAt(segs, p) =>
                  (r = q \/ Before(q, r))

\* C11: for a batch that passes the timing and overlap checks, calculate
\* raises the duplicate-receipt error exactly when some receipt id occurs more
\* than once among all receipts of the batch, in two segments or twice in one;
\* the error names the trip that first introduced the id in input order and
\* the trip of the first re-occurrence; an accepted batch has pairwise
\* distinct receipt ids.
C11_DuplicateReceiptRejected ==
    /\ (pc # "call" /\ WellTimed(segments) /\ ~PairwiseOverlap(segments)) =>
          /\ HasDuplicateReceipt(segments) <=> Raises("duplicate")
          /\ Raises("duplicate") =>
                LET p == FirstReoccurrence(segments)
                    q == Introduction(segments, p)
                IN /\ error[1].receipt = ReceiptIdAt(segments, p)
                   /\ error[1].trips = <<segments[q[1]].trip_id,
                                         segments[p[1]].trip_id>>
                   /\ result = None
    /\ pc \in {"loop", "day", "meal", "accumulate", "returned"} =>
          \A p, q \in ReceiptPositions(segments) :
              p # q => ReceiptIdAt(segments, p) # ReceiptIdAt(segments, q)

\* a receipt id carried by all three segments of a batch given in descending
\* order of start: the error names the first two trips of the input order
C11_Witness ==
    /\ Raises("duplicate")
    /\ Len(segments) = 3
    /\ \A i \in 1..3 : Len(segments[i].receipts) = 1
    /\ \A i \in 1..3 : segments[i].receipts[1].receipt_id
                          = segments[1].receipts[1].receipt_id
    /\ segments[1].start > segments[2].start
    /\ error[1].trips = <<segments[1].trip_id, segments[2].trip_id>>

\* the spellings of the supported codes, and the rates the specification
\* gives them, in cents
CasingsOf ==
    [DE |-> {"DE", "De", "dE", "de"}, AT |-> {"AT", "At", "aT", "at"},
     CH |-> {"CH", "Ch", "cH", "ch"}, FR |-> {"FR", "Fr", "fR", "fr"},
     NL |-> {"NL", "Nl", "nL", "nl"}]

RatesInCents ==
    [DE |-> [full_day |-> 2800, partial_day |-> 1400],
     AT |-> [full_day |-> 4000, partial_day |-> 2700],
     CH |-> [full_day |-> 6400, partial_day |-> 4300],
     FR |-> [full_day |-> 5300, partial_day |-> 3500],
     NL |-> [full_day |-> 4700, partial_day |-> 3200]]

IsCasingOfSupported(code) == \E canon \in DOMAIN CasingsOf : code \in CasingsOf[canon]

CanonicalOf(code) == CHOOSE canon \in DOMAIN CasingsOf : code \in CasingsOf[canon]

RatesOfCanonical(canon) ==
    [full_day    |-> Dec(RatesInCents[canon].full_day, 2),
     partial_day |-> Dec(RatesInCents[canon].partial_day, 2)]

\* C12: rate resolution is case-insensitive and total: any casing of DE
\* yields the domestic rates 28.00 and 14.00, any casing of AT, CH, FR or NL
\* yields that entry of the table, every other code raises the error naming
\* the upper-cased code and no totals are returned; by_trip reports the
\* upper-cased country code.
C12_RateResolution ==
    /\ (pc = "loop" /\ idx <= Len(ordered)) =>
          LET code == ordered[idx].country_code
          IN IF IsCasingOfSupported(code)
             THEN _get_rates_for_country(code)
                      = Some(RatesOfCanonical(CanonicalOf(code)))
             ELSE _get_rates_for_country(code) = None
    /\ pc \in {"day", "meal", "accumulate"} =>
          /\ IsCasingOfSupported(ordered[idx].country_code)
          /\ rates = Some(RatesOfCanonical(
                              CanonicalOf(ordered[idx].country_code)))
          /\ ordered[idx].country_code \in CasingsOf["DE"] =>
                /\ Str(rates[1].full_day) = Display(28, 0)
                /\ Str(rates[1].partial_day) = Display(14, 0)
    /\ Raises("country") =>
          /\ ~IsCasingOfSupported(ordered[idx].country_code)
          /\ error[1].code = Upper(ordered[idx].country_code)
          /\ result = None
    /\ \A k \in 1..Len(by_trip) :
          LET seg == SegmentOf(by_trip[k])
          IN /\ IsCasingOfSupported(seg.country_code)
             /\ by_trip[k].country_code = CanonicalOf(seg.country_code)
             /\ by_trip[k].calculation_steps[1].a
                   = Str(RatesOfCanonical(by_trip[k].country_code).full_day)
             /\ by_trip[k].calculation_steps[1].b
                   = Str(RatesOfCanonical(by_trip[k].country_code).partial_day)

\* a trip given as "cH" was priced at the Swiss rates and reported as CH, then
\* the lookup of "zz" raised the error naming ZZ
C12_Witness ==
    /\ Raises("country")
    /\ ordered[idx].country_code = "zz"
    /\ error[1].code = "ZZ"
    /\ Len(by_trip) = 1
    /\ SegmentOf(by_trip[1]).country_code = "cH"
    /\ by_trip[1].country_code = "CH"
    /\ by_trip[1].calculation_steps[1].a = Display(64, 0)
    /\ result = None

Impossible(seg) == seg.end <= seg.start

\* C15: a batch containing a segment with end <= start, end = start included,
\* is rejected with the error naming an offending trip, whatever the other
\* segments of the batch are; every segment of an accepted batch has
\* end > start.
C15_ImpossibleTimeSpanRejected ==
    /\ (pc # "call" /\ \E i \in 1..Len(segments) : Impossible(segments[i])) =>
          /\ Raises("timespan")
          /\ \E i \in 1..Len(segments) :
                /\ Impossible(segments[i])
                /\ error[1].trips = <<segments[i].trip_id>>
          /\ NothingComputed
          /\ result = None
    /\ pc \in {"loop", "day", "meal", "accumulate", "returned"} =>
          \A i \in 1..Len(segments) : segments[i].end > segments[i].start

\* a zero-length segment, given last, is named although the two segments
\* before it intersect
C15_Witness ==
    /\ Raises("timespan")
    /\ Len(segments) = 3
    /\ segments[3].end = segments[3].start
    /\ ~Impossible(segments[1])
    /\ ~Impossible(segments[2])
    /\ Intersect(segments[1], segments[2])
    /\ error[1].trips = <<segments[3].trip_id>>

\* what calculate returns or raises for each batch when it is the only call
Alone ==
    [b \in {call[2] : call \in SessionCalls} |-> calculate(b)]

\* C13: calculate is deterministic and keeps no state between calls: two
\* calls with the same batch have the same outcome, for returned calls the
\* identical payload (totals, by_trip, calculation_steps in the same order),
\* whatever calls, successful or failed, were made before or in between; when
\* no call is running the service is as it was before the first call.
C13_SameBatchSameOutcome ==
    /\ \A i, j \in 1..Len(log) :
          (/\ log[i].entry = "calculate"
           /\ log[j].entry = "calculate"
           /\ log[i].segments = log[j].segments) =>
              /\ log[i].outcome.raised = log[j].outcome.raised
              /\ log[i].outcome.error = log[j].outcome.error
              /\ ~log[i].outcome.raised =>
                    /\ log[i].outcome.value[1].totals
                          = log[j].outcome.value[1].totals
                    /\ log[i].outcome.value[1].by_trip
                          = log[j].outcome.value[1].by_trip
                    /\ log[i].outcome.value[1].calculation_steps
                          = log[j].outcome.value[1].calculation_steps
                    /\ log[i].outcome.value[1] = log[j].outcome.value[1]
    /\ (\A c \in Callers : ~Running(c)) =>
          /\ calls = [c \in Callers |-> IdleCall]
          /\ shared = GlobalsAtImport

\* calculate returned the same payload for the same batch before and after a
\* call that failed on another batch
C13_Witness ==
    /\ Len(log) = 3
    /\ log[1].entry = "calculate"
    /\ log[3].entry = "calculate"
    /\ log[1].segments = log[3].segments
    /\ log[2].segments # log[1].segments
    /\ log[2].outcome.raised
    /\ \A i \in 1..3 : ~log[i].concurrent
    /\ ~log[1].outcome.raised
    /\ Len(log[1].outcome.value[1].by_trip) = 2
    /\ log[1].outcome = log[3].outcome

\* C14: every successful result of calculate and of calculate_and_persist
\* carries rule_version = RULE_VERSION whatever the batch, and
\* calculate_and_persist returns the same totals, calculation_steps and
\* by_trip as calculate on the same batch and fails exactly when calculate
\* fails.
C14_PersistPayloadIsCalculation ==
    \A i \in 1..Len(log) :
        LET alone == Alone[log[i].segments]
        IN /\ ~log[i].outcome.raised =>
                 log[i].outcome.value[1].rule_version
                     = "DE_TRAVEL_RULES_2026_01"
           /\ log[i].entry = "calculate_and_persist" =>
                 /\ log[i].outcome.raised <=> alone.raised
                 /\ log[i].outcome.error = alone.error
                 /\ ~log[i].outcome.raised =>
                       /\ DOMAIN log[i].outcome.value[1]
                             = {"rule_version", "totals", "calculation_steps",
                                "by_trip"}
                       /\ log[i].outcome.value[1].totals
                             = alone.value[1].totals
                       /\ log[i].outcome.value[1].calculation_steps
                             = alone.value[1].calculation_steps
                       /\ log[i].outcome.value[1].by_trip
                             = alone.value[1].by_trip
                 /\ \A j \in 1..Len(log) :
                       (log[j].entry = "calculate"
                           /\ log[j].segments = log[i].segments) =>
                           log[j].outcome = log[i].outcome

\* calculate_and_persist has returned for one batch and raised for another,
\* and calculate has returned for the first
C14_Witness ==
    /\ Len(log) = 3
    /\ log[1].entry = "calculate_and_persist"
    /\ ~log[1].outcome.raised
    /\ log[1].outcome.value[1].calculation_steps # <<>>
    /\ log[2].entry = "calculate_and_persist"
    /\ log[2].outcome.raised
    /\ log[3].entry = "calculate"
    /\ log[3].segments = log[1].segments
    /\ log[3].outcome = log[1].outcome

\* the first n elements of a list
Prefix(list, n) == [k \in 1..n |-> list[k]]

\* C16: calls of calculate run concurrently, their steps interleaved in any
\* way and nothing locked: each call returns, or raises, exactly what it does
\* when run alone, a running call has computed what it has computed at that
\* point when run alone, and no call modifies the shared rate tables, meal
\* ratios or rule version.
C16_ConcurrentCallsAsAlone ==
    /\ shared = GlobalsAtImport
    /\ \A i \in 1..Len(log) :
          log[i].entry = "calculate" =>
              log[i].outcome = Alone[log[i].segments]
    /\ \A c \in Callers :
          (Running(c) /\ calls[c].pc # "call") =>
              LET alone == Alone[calls[c].segments]
                  n     == Len(calls[c].by_trip)
              IN /\ ~alone.raised =>
                       /\ n <= Len(alone.value[1].by_trip)
                       /\ calls[c].by_trip = Prefix(alone.value[1].by_trip, n)
                       /\ Len(calls[c].steps)
                             <= Len(alone.value[1].calculation_steps)
                       /\ calls[c].steps
                             = Prefix(alone.value[1].calculation_steps,
                                      Len(calls[c].steps))
                 /\ alone.raised => alone.error[1].kind = "country"

\* two calls of calculate, one still running when the other ended, have both
\* returned, each what it returns alone
C16_Witness ==
    /\ Len(log) = 2
    /\ \A c \in Callers : ~Running(c)
    /\ log[1].concurrent
    /\ log[1].entry = "calculate"
    /\ log[2].entry = "calculate"
    /\ ~log[1].outcome.raised
    /\ ~log[2].outcome.raised
    /\ log[1].outcome = Alone[log[1].segments]
    /\ log[2].outcome = Alone[log[2].segments]

(***************************************************************************)
(* ReceiptUpdateService: OCR updates and manual corrections of one receipt *)
(***************************************************************************)
\* a Python str value
Text(s) == [text |-> s]

\* isinstance(value, Decimal)
IsDecimal(value) == "c" \in DOMAIN value

\* Decimal values are stored as their str(), every other value as it is
_normalize_value(value) == IF IsDecimal(value) THEN Str(value) ELSE value

UPDATABLE_FIELDS ==
    {"ocr_text", "vendor", "receipt_date", "amount", "confidence",
     "processing_status"}

\* the columns of table receipt that an INSERT of ReceiptRepository.create
\* fills; file_path is one of them and is not updatable
ReceiptColumns == UPDATABLE_FIELDS \cup {"file_path"}

\* the field names the calls of the model pass: three updatable ones and one
\* that is a column but not updatable
FieldNames == {"amount", "file_path", "ocr_text", "vendor"}

\* sorted(names) on the names the model passes
FieldNamesSorted == <<"amount", "file_path", "ocr_text", "vendor">>

Sorted(S) == SelectSeq(FieldNamesSorted, LAMBDA name : name \in S)

\* what the OCR pipeline reads for a field, and what a person types
OcrValue(field) ==
    CASE field = "amount"    -> Dec(125, 1)
      [] field = "file_path" -> Text("uploads/other.png")
      [] field = "ocr_text"  -> Text("CAFE NER0 12.5")
      [] field = "vendor"    -> Text("CAFE NER0")

ManualVendors == {Text("Cafe Nero"), Text("Caffe Nero")}

ManualValue(field, vendor) ==
    CASE field = "amount"    -> Dec(1250, 2)
      [] field = "file_path" -> Text("uploads/scan.png")
      [] field = "ocr_text"  -> Text("Cafe Nero 12.50")
      [] field = "vendor"    -> vendor

OcrFields == {[field \in S |-> OcrValue(field)] : S \in SUBSET FieldNames}

ManualFields ==
    {[field \in S |-> ManualValue(field, vendor)] :
        S \in SUBSET FieldNames, vendor \in ManualVendors}

\* the row ReceiptRepository.create inserted
CreatedRow ==
    [column \in ReceiptColumns |->
        IF column = "file_path" THEN Text("uploads/1.png")
        ELSE IF column = "processing_status" THEN Text("uploaded")
        ELSE None]

\* OwnershipRepository.get_owner: the owner_source of the record, None
\* without a record
get_owner(records, field_name) == records[field_name]

\* faulty variant: an insert that keeps the record a field already has
set_owner_or_ignore(records, names, owner_source) ==
    [field_name \in DOMAIN records |->
        IF field_name \in names /\ None = records[field_name]
        THEN owner_source ELSE records[field_name]]

\* OwnershipRepository.set_owner for each of the names, an upsert
set_owner(records, names, owner_source) ==
    [field_name \in DOMAIN records |->
        IF field_name \in names THEN owner_source ELSE records[field_name]]

\* ReceiptRepository.update_fields raises ValueError
update_fields_raises(fields) ==
    /\ DOMAIN fields # {}
    /\ DOMAIN fields \ UPDATABLE_FIELDS # {}

\* the row after ReceiptRepository.update_fields returned
update_fields(row, fields) ==
    [column \in DOMAIN row |->
        IF column \in DOMAIN fields
        THEN _normalize_value(fields[column])
        ELSE row[column]]

\* faulty variant: an OCR update skips nothing
SkipsNothing(owner, force) == FALSE

\* line 73 of apply_ocr_update: the field is skipped
Skips(owner, force) == owner = "manual" /\ ~force

\* the values of manual corrections that no forced OCR update has replaced
CorrectedAfterManual(c, fields) ==
    [field_name \in DOMAIN c |->
        IF field_name \in DOMAIN fields
        THEN Some(_normalize_value(fields[field_name]))
        ELSE c[field_name]]

CorrectedAfterOcr(c, applied, force) ==
    [field_name \in DOMAIN c |->
        IF force /\ field_name \in DOMAIN applied THEN None
        ELSE c[field_name]]

Update(op, fields, force, outcome, updated, skipped) ==
    [op |-> op, fields |-> fields, force |-> force, outcome |-> outcome,
     updated |-> updated, skipped |-> skipped,
     row_before |-> receipt_row, ownership_before |-> ownership,
     corrected_before |-> corrected, open_before |-> in_transaction]

\* `with self.conn` when its body raises: the connection rolls back what it
\* has not committed, the INSERT of ReceiptRepository.create included; None
\* where the receipt has no row
RolledBack(row, open) == IF open THEN None ELSE row

\* ReceiptUpdateService.apply_ocr_update(receipt_id, fields, force)
ApplyOcrUpdate ==
    \E fields \in OcrFields, force \in BOOLEAN :
        LET skipped == {field \in DOMAIN fields :
                          Skips(get_owner(ownership, field), force)}
            applied == [field \in DOMAIN fields \ skipped |-> fields[field]]
        IN  /\ receipt_row # None
            /\ in_transaction' = FALSE
            /\ UNCHANGED in_flight
            /\ IF update_fields_raises(applied)
               THEN /\ receipt_row' = RolledBack(receipt_row, in_transaction)
                    /\ UNCHANGED <<ownership, corrected>>
                    /\ last_update' = Update("ocr", fields, force, "raised",
                                             <<>>, <<>>)
               ELSE /\ receipt_row' = update_fields(receipt_row, applied)
                    /\ ownership' = set_owner(ownership, DOMAIN applied, "ocr")
                    /\ corrected' = CorrectedAfterOcr(corrected, applied, force)
                    /\ last_update' = Update("ocr", fields, force, "returned",
                                             Sorted(DOMAIN applied),
                                             Sorted(skipped))
            /\ UNCHANGED outsideReceipts

\* ReceiptUpdateService.apply_manual_correction(receipt_id, fields)
ApplyManualCorrection ==
    \E fields \in ManualFields :
        /\ receipt_row # None
        /\ in_transaction' = FALSE
        /\ UNCHANGED in_flight
        /\ IF update_fields_raises(fields)
           THEN /\ receipt_row' = RolledBack(receipt_row, in_transaction)
                /\ UNCHANGED <<ownership, corrected>>
                /\ last_update' = Update("manual", fields, FALSE, "raised",
                                         <<>>, <<>>)
           ELSE /\ receipt_row' = update_fields(receipt_row, fields)
                /\ ownership' = set_owner(ownership, DOMAIN fields, "manual")
                /\ corrected' = CorrectedAfterManual(corrected, fields)
                /\ last_update' = Update("manual", fields, FALSE, "returned",
                                         Sorted(DOMAIN fields), <<>>)
        /\ UNCHANGED outsideReceipts

ReceiptNext == ApplyOcrUpdate \/ ApplyManualCorrection

\* the receipt was created by ExpenseService.attach_receipt_to_expense, which
\* commits (services.py line 40), or by ReceiptRepository.create alone, which
\* does not (repositories.py lines 159-175)
ReceiptInit ==
    /\ receipt_row = CreatedRow
    /\ in_transaction \in BOOLEAN
    /\ in_flight = None
    /\ ownership = [field_name \in FieldNames |-> None]
    /\ corrected = [field_name \in FieldNames |-> None]
    /\ last_update = None
    /\ CallAtRest
    /\ SessionAtRest
    /\ TripAtRest
    /\ RetentionAtRest

ReceiptSpec == ReceiptInit /\ [][ReceiptNext]_vars

Members(seq) == {seq[i] : i \in 1..Len(seq)}

\* the last call was a non-forced OCR update
NonForcedOcr == last_update # None /\ last_update.op = "ocr" /\ ~last_update.force

\* the fields of the last call that a manual correction had set, no forced
\* update since
ManualOf(u) == {field \in DOMAIN u.fields : u.corrected_before[field] # None}

\* the stored form of a value: the text itself, a Decimal as its string
StoredForm(value) == IF "text" \in DOMAIN value THEN value ELSE Str(value)

ManualFieldsKept(u) ==
    \A field \in ManualOf(u) :
        /\ receipt_row[field] = u.row_before[field]
        /\ receipt_row[field] = u.corrected_before[field][1]
        /\ ownership[field] = "manual"
        /\ corrected[field] = u.corrected_before[field]

ReportedAndWritten(u) ==
    /\ u.outcome = "returned"
    /\ \A field \in ManualOf(u) :
          field \in Members(u.skipped) /\ field \notin Members(u.updated)
    /\ \A field \in DOMAIN u.fields \ ManualOf(u) :
          /\ receipt_row[field] = StoredForm(u.fields[field])
          /\ ownership[field] = "ocr"
          /\ field \in Members(u.updated)

\* C17 as stated: after a manual correction of a field, every non-forced OCR
\* update that includes the field keeps its value and its owner 'manual',
\* reports it under skipped and not under updated, and writes the other
\* fields of the update, which become owned by 'ocr'.
C17_EveryNonForcedUpdateReports ==
    (NonForcedOcr /\ ManualOf(last_update) # {}) =>
        ManualFieldsKept(last_update) /\ ReportedAndWritten(last_update)

\* C17: after a manual correction of a field, every non-forced OCR update
\* that includes the field keeps its stored value and its owner 'manual',
\* whatever came between; when the update names only updatable fields it
\* returns, reports the field under skipped and not under updated, and its
\* other fields are written and owned by 'ocr'; when it names another field
\* it raises ValueError and writes nothing.
C17_ManualCorrectionWins ==
    (NonForcedOcr /\ ManualOf(last_update) # {}) =>
        /\ ManualFieldsKept(last_update)
        /\ IF DOMAIN last_update.fields \subseteq UPDATABLE_FIELDS
           THEN ReportedAndWritten(last_update)
           ELSE /\ last_update.outcome = "raised"
                /\ receipt_row = last_update.row_before
                /\ ownership = last_update.ownership_before

\* a second non-forced OCR update in a row met a corrected vendor and wrote
\* the amount beside it
C17_Witness ==
    /\ NonForcedOcr
    /\ last_update.outcome = "returned"
    /\ last_update.skipped = <<"vendor">>
    /\ last_update.updated = <<"amount", "ocr_text">>
    /\ last_update.ownership_before["amount"] = "ocr"
    /\ receipt_row["vendor"] = Text("Caffe Nero")
    /\ receipt_row["amount"] = Str(Dec(125, 1))

(***************************************************************************)
(* Trip, ExpenseItem and ExportSnapshotStore (core.py)                     *)
(***************************************************************************)
\* expenses added, change log entries of expenses and snapshot files written,
\* together
MaxEffects == 4

\* a Python str given character by character
Chars(s) == [chars |-> s]

\* a datetime.date
Date(day) == [day |-> day]

\* date.isoformat()
isoformat(d) == [iso |-> d.day]

\* `not value` for None and the empty string
Falsy(value) == value = None \/ value = Text("") \/ value = Chars(<<>>)

IsSpace(ch) == ch \in {" ", "\t"}

\* str.lower() on the characters the merchants of the model are written with
Lower(ch) ==
    CASE ch = "A" -> "a"
      [] ch = "B" -> "b"
      [] OTHER    -> ch

RECURSIVE LStrip(_)
LStrip(s) ==
    IF s # <<>> /\ IsSpace(Head(s)) THEN LStrip(Tail(s)) ELSE s

RECURSIVE RStrip(_)
RStrip(s) ==
    IF s # <<>> /\ IsSpace(s[Len(s)])
    THEN RStrip(SubSeq(s, 1, Len(s) - 1))
    ELSE s

\* re.sub(r"\s+", " ", s)
RECURSIVE CollapseSpaces(_)
CollapseSpaces(s) ==
    IF s = <<>> THEN <<>>
    ELSE IF IsSpace(Head(s))
         THEN <<" ">> \o CollapseSpaces(LStrip(s))
         ELSE <<Head(s)>> \o CollapseSpaces(Tail(s))

\* re.sub(r"\s+", " ", merchant.strip().lower())
normalize_merchant(merchant) ==
    Chars(CollapseSpaces(
        LET stripped == RStrip(LStrip(merchant.chars))
        IN  [i \in 1..Len(stripped) |-> Lower(stripped[i])]))

\* sha256(raw).hexdigest(), taken as collision free
Sha256(raw) == [sha256 |-> raw]

ExpenseItem(expense_id, merchant, amount, spent_on, category, receipt_path,
            image_hash) ==
    [expense_id |-> expense_id, merchant |-> merchant, amount |-> amount,
     spent_on |-> spent_on, category |-> category,
     receipt_path |-> receipt_path, image_hash |-> image_hash,
     change_log |-> <<>>]

\* a ChangeLogEntry without its changed_at
ChangeLogEntry(entity_type, entity_id, field_name, old_value, new_value) ==
    [entity_type |-> entity_type, entity_id |-> entity_id,
     field_name |-> field_name, old_value |-> old_value,
     new_value |-> new_value]

\* ExpenseItem.fingerprint
fingerprint(e) ==
    IF e.amount = None \/ e.spent_on = None \/ Falsy(e.merchant)
    THEN None
    ELSE Sha256(<<Str(e.amount), isoformat(e.spent_on),
                  normalize_merchant(e.merchant)>>)

\* a dict as the list of its items
Get(d, key) ==
    IF \E i \in 1..Len(d) : d[i][1] = key
    THEN d[CHOOSE i \in 1..Len(d) : d[i][1] = key][2]
    ELSE None

Put(d, key, value) ==
    IF \E i \in 1..Len(d) : d[i][1] = key
    THEN [i \in 1..Len(d) |-> IF d[i][1] = key THEN <<key, value>> ELSE d[i]]
    ELSE Append(d, <<key, value>>)

REQUIRED == <<"merchant", "amount", "spent_on", "category", "receipt_path">>

\* lines 101-108 of Trip.validate for one expense
MissingOf(e) == SelectSeq(REQUIRED, LAMBDA required : Falsy(e[required]))

RECURSIVE MissingLoop(_, _, _)
MissingLoop(exps, k, blockers) ==
    IF k > Len(exps) THEN blockers
    ELSE MissingLoop(exps, k + 1,
            IF MissingOf(exps[k]) # <<>>
            THEN Append(blockers,
                        [kind |-> "missing mandatory fields",
                         expense_id |-> exps[k].expense_id,
                         missing |-> MissingOf(exps[k])])
            ELSE blockers)

\* Trip.find_duplicate_receipts, the loop of lines 117-134
RECURSIVE DuplicateLoop(_, _, _, _, _)
DuplicateLoop(exps, k, by_fingerprint, by_image_hash, duplicates) ==
    IF k > Len(exps) THEN duplicates
    ELSE LET expense   == exps[k]
             fp        == fingerprint(expense)
             seen      == Get(by_fingerprint, fp)
             fpHit     == ~Falsy(fp) /\ ~Falsy(seen)
             afterFp   == IF fpHit
                          THEN Append(duplicates,
                                  [kind |-> "fingerprint", seen |-> seen,
                                   expense_id |-> expense.expense_id])
                          ELSE duplicates
             fps       == IF ~Falsy(fp) /\ ~fpHit
                          THEN Put(by_fingerprint, fp, expense.expense_id)
                          ELSE by_fingerprint
             seen_hash == Get(by_image_hash, expense.image_hash)
             hashHit   == ~Falsy(expense.image_hash) /\ ~Falsy(seen_hash)
             afterHash == IF hashHit
                          THEN Append(afterFp,
                                  [kind |-> "image hash", seen |-> seen_hash,
                                   expense_id |-> expense.expense_id])
                          ELSE afterFp
             hashes    == IF ~Falsy(expense.image_hash) /\ ~hashHit
                          THEN Put(by_image_hash, expense.image_hash,
                                   expense.expense_id)
                          ELSE by_image_hash
         IN  DuplicateLoop(exps, k + 1, fps, hashes, afterHash)

find_duplicate_receipts(exps) == DuplicateLoop(exps, 1, <<>>, <<>>, <<>>)

ValidationResult(blockers) ==
    [ready_for_export |-> blockers = <<>>, blockers |-> blockers]

\* Trip.validate
validate(exps) ==
    ValidationResult(MissingLoop(exps, 1, <<>>) \o find_duplicate_receipts(exps))

TheTrip == [trip_id |-> Text("T-1"), name |-> Text("Berlin")]

\* the str() of an amount, "None" for None
StrOrNone(amount) == IF amount = None THEN Text("None") ELSE Str(amount)

\* lines 144-160 of Trip.create_export_payload
ExportPayload(exps, generated_at) ==
    [trip_id |-> TheTrip.trip_id, trip_name |-> TheTrip.name,
     generated_at |-> generated_at,
     expenses |->
        [i \in 1..Len(exps) |->
            [expense_id |-> exps[i].expense_id,
             merchant |-> exps[i].merchant,
             amount |-> StrOrNone(exps[i].amount),
             spent_on |-> IF Falsy(exps[i].spent_on) THEN None
                          ELSE isoformat(exps[i].spent_on),
             category |-> exps[i].category,
             receipt_path |-> exps[i].receipt_path,
             image_hash |-> exps[i].image_hash]]]

\* faulty variant: the payload is built whatever validate says
ExportRaisesNever(exps) == FALSE

\* lines 138-143 of Trip.create_export_payload: ValueError
ExportRaises(exps) == ~validate(exps).ready_for_export

\* hasattr(self, field_name) for the names the model passes
ExpenseAttributes ==
    {"expense_id", "merchant", "amount", "spent_on", "category",
     "receipt_path", "image_hash", "change_log"}

\* old_value != new_value: Decimals compare by value
NotEqual(old_value, new_value) ==
    IF IsDecimal(old_value) /\ IsDecimal(new_value)
    THEN ~DecEq(old_value, new_value)
    ELSE old_value # new_value

\* line 43 on the attribute field_name; lists compare by their items
Differs(e, field_name, new_value) ==
    IF field_name = "change_log" THEN e.change_log # new_value
    ELSE NotEqual(e[field_name], new_value)

\* the loop of ExpenseItem.update over changes.items()
RECURSIVE UpdateLoop(_, _, _, _)
UpdateLoop(e, changes, k, entries) ==
    IF k > Len(changes)
    THEN [expense |-> e, entries |-> entries, raised |-> FALSE]
    ELSE LET field_name == changes[k][1]
             new_value  == changes[k][2]
         IN  IF field_name \notin ExpenseAttributes
             THEN [expense |-> e, entries |-> entries, raised |-> TRUE]
             ELSE IF Differs(e, field_name, new_value)
                  THEN LET entry == ChangeLogEntry("expense", e.expense_id,
                                        field_name, e[field_name], new_value)
                       IN  UpdateLoop(
                              [e EXCEPT ![field_name] = new_value,
                                        !.change_log = Append(@, entry)],
                              changes, k + 1, Append(entries, entry))
                  ELSE UpdateLoop(e, changes, k + 1, entries)

update(e, changes) == UpdateLoop(e, changes, 1, <<>>)

\* the values the calls of the model pass
\* the expenses handed to add_expense, before they get their id: "A b" for
\* 9.5 without image hash; " a<tab> B " for 9.50 with hash h1; "A b" for 9.5
\* with hash h1 and no category; one with nothing filled in
Drafts ==
    {ExpenseItem(None, Chars(<<"A", " ", "b">>), Dec(95, 1), Date(1),
                 Text("Meals"), Text("receipt.png"), None),
     ExpenseItem(None, Chars(<<" ", "a", "\t", " ", "B", " ">>), Dec(950, 2),
                 Date(1), Text("Meals"), Text("receipt.png"), Text("h1")),
     ExpenseItem(None, Chars(<<"A", " ", "b">>), Dec(95, 1), Date(1),
                 None, Text("receipt.png"), Text("h1")),
     ExpenseItem(None, None, None, None, None, None, None)}

\* the id of the n-th expense added: "exp-1", "exp-2", ...
ExpenseId(n) == Chars(<<"exp-", n>>)

\* the keyword arguments handed to update, in the order they are written
Changes ==
    {<<<<"merchant", Chars(<<>>)>>>>,
     <<<<"amount", Dec(950, 2)>>>>,
     <<<<"category", Text("Meals")>>>>,
     <<<<"image_hash", Text("")>>>>,
     <<<<"category", Text("Taxi")>>, <<"bogus", Text("x")>>,
       <<"image_hash", None>>>>}

\* the entries of a change log, with those of a log that an entry holds as
\* its old value
RECURSIVE EntriesIn(_)
EntriesIn(change_log) ==
    IF change_log = <<>> THEN 0
    ELSE 1 + (IF Head(change_log).field_name = "change_log"
              THEN EntriesIn(Head(change_log).old_value) ELSE 0)
           + EntriesIn(Tail(change_log))

RECURSIVE LogLength(_, _)
LogLength(exps, k) ==
    IF k > Len(exps) THEN 0
    ELSE EntriesIn(exps[k].change_log) + LogLength(exps, k + 1)

\* the expenses, the entries their updates have logged and the snapshot files
Effects == Len(expenses) + LogLength(expenses, 1) + Cardinality(snapshot_files)

Export(op, outcome, returned) ==
    [op |-> op, outcome |-> outcome, returned |-> returned,
     files_before |-> snapshot_files]

\* Trip.add_expense(expense), the expense a new ExpenseItem
AddExpense ==
    \E draft \in Drafts :
        /\ Effects < MaxEffects
        /\ LET expense == [draft EXCEPT
                              !.expense_id = ExpenseId(Len(expenses) + 1)]
           IN  /\ expenses' = Append(expenses, expense)
               /\ trip_change_log' =
                     Append(trip_change_log,
                            ChangeLogEntry("trip", TheTrip.trip_id, "expenses",
                                           None, expense.expense_id))
        /\ last_export' = Export("add_expense", "returned", None)
        /\ UNCHANGED <<snapshot_files, clock>>
        /\ UNCHANGED outsideTrip

\* ExpenseItem.update(**changes) on an expense of the trip
UpdateExpense ==
    \E i \in 1..Len(expenses), changes \in Changes :
        LET done == update(expenses[i], changes)
        IN  /\ EntriesIn(done.expense.change_log)
                     - EntriesIn(expenses[i].change_log)
                  <= MaxEffects - Effects
            /\ expenses' = [expenses EXCEPT ![i] = done.expense]
            /\ last_export' =
                  Export("update",
                         IF done.raised THEN "AttributeError" ELSE "returned",
                         IF done.raised THEN None ELSE Some(done.entries))
            /\ UNCHANGED <<trip_change_log, snapshot_files, clock>>
            /\ UNCHANGED outsideTrip

\* Trip.create_export_payload()
CreateExportPayload ==
    /\ last_export' =
          IF ExportRaises(expenses)
          THEN Export("create_export_payload", "ValueError", None)
          ELSE Export("create_export_payload", "returned",
                      Some(ExportPayload(expenses, clock)))
    /\ UNCHANGED <<expenses, trip_change_log, snapshot_files, clock>>
    /\ UNCHANGED outsideTrip

\* ExportSnapshotStore.save_snapshot(trip); the file is named by the time
\* read after the payload was built
SaveSnapshot ==
    \E timestamp \in {clock, clock + 1} :
        /\ IF ExportRaises(expenses)
           THEN /\ last_export' = Export("save_snapshot", "ValueError", None)
                /\ UNCHANGED <<snapshot_files, clock>>
           ELSE LET snapshot ==
                        [snapshot_id |-> Cardinality(snapshot_files) + 1,
                         trip_id |-> TheTrip.trip_id,
                         generated_at |-> timestamp,
                         payload |-> ExportPayload(expenses, clock)]
                IN  /\ clock' = timestamp
                    /\ IF \E f \in snapshot_files : f.name = timestamp
                       THEN \* open(..., "x") finds the file
                            /\ last_export' = Export("save_snapshot",
                                                     "FileExistsError", None)
                            /\ UNCHANGED snapshot_files
                       ELSE /\ Effects < MaxEffects
                            /\ snapshot_files' = snapshot_files \cup
                                   {[name |-> timestamp,
                                     content |-> snapshot,
                                     taken_from |-> expenses]}
                            /\ last_export' = Export("save_snapshot",
                                                     "returned", Some(snapshot))
        /\ UNCHANGED <<expenses, trip_change_log>>
        /\ UNCHANGED outsideTrip

TripNext ==
    \/ AddExpense
    \/ UpdateExpense
    \/ CreateExportPayload
    \/ SaveSnapshot

TripInit ==
    /\ TripAtRest
    /\ CallAtRest
    /\ SessionAtRest
    /\ ReceiptsAtRest
    /\ RetentionAtRest

TripSpec == TripInit /\ [][TripNext]_vars
\* every mandatory field of the expense holds a value other than the empty
\* string
Filled(e) ==
    \A required \in {"merchant", "amount", "spent_on", "category",
                     "receipt_path"} :
        e[required] # None /\ e[required] # Text("") /\ e[required] # Chars(<<>>)

\* the words of a text in lower case: what is left of it up to case and
\* whitespace
RECURSIVE Words(_)
Words(s) ==
    LET t == LStrip(s)
        n == IF \E i \in 1..Len(t) : IsSpace(t[i])
             THEN CHOOSE i \in 1..Len(t) :
                     IsSpace(t[i]) /\ \A j \in 1..(i - 1) : ~IsSpace(t[j])
             ELSE Len(t) + 1
    IN  IF t = <<>> THEN <<>>
        ELSE <<[i \in 1..(n - 1) |-> Lower(t[i])]>>
                 \o Words(SubSeq(t, n, Len(t)))

HasFingerprint(e) ==
    e.amount # None /\ e.spent_on # None /\ e.merchant # None
        /\ e.merchant # Chars(<<>>)

\* same amount, same date, same merchant up to case and whitespace
SameFingerprint(a, b) ==
    /\ HasFingerprint(a) /\ HasFingerprint(b)
    /\ DecEq(a.amount, b.amount)
    /\ a.spent_on = b.spent_on
    /\ Words(a.merchant.chars) = Words(b.merchant.chars)

\* same amount as written, same date, same merchant up to case and whitespace
SameFingerprintAsWritten(a, b) ==
    SameFingerprint(a, b) /\ Str(a.amount) = Str(b.amount)

SameImageHash(a, b) ==
    a.image_hash # None /\ a.image_hash # Text("") /\ a.image_hash = b.image_hash

Pairs(exps) == {p \in (1..Len(exps)) \X (1..Len(exps)) : p[1] < p[2]}

\* C18 as stated: validate reports ready_for_export exactly when its blockers
\* list is empty, that is exactly when every expense has its five mandatory
\* fields filled and no two expenses have the same amount, date and merchant
\* (up to case and whitespace) or the same non-empty image hash.
C18_ReadyIffCompleteAndDistinct ==
    LET validation == validate(expenses)
    IN  /\ validation.ready_for_export <=> validation.blockers = <<>>
        /\ validation.ready_for_export <=>
              /\ \A i \in 1..Len(expenses) : Filled(expenses[i])
              /\ \A p \in Pairs(expenses) :
                    /\ ~SameFingerprint(expenses[p[1]], expenses[p[2]])
                    /\ ~SameImageHash(expenses[p[1]], expenses[p[2]])

\* what validate does decide: two expenses share a fingerprint when their
\* amounts are written alike, 9.5 and 9.50 do not
ReadyIffDistinctAsWritten ==
    LET validation == validate(expenses)
    IN  /\ validation.ready_for_export <=> validation.blockers = <<>>
        /\ validation.ready_for_export <=>
              /\ \A i \in 1..Len(expenses) : Filled(expenses[i])
              /\ \A p \in Pairs(expenses) :
                    /\ ~SameFingerprintAsWritten(expenses[p[1]], expenses[p[2]])
                    /\ ~SameImageHash(expenses[p[1]], expenses[p[2]])

\* the last call was create_export_payload or save_snapshot
Exporting ==
    last_export # None
        /\ last_export.op \in {"create_export_payload", "save_snapshot"}

\* C19: whenever validate reports ready_for_export = false,
\* create_export_payload raises ValueError and save_snapshot raises it too,
\* writes no snapshot file and returns no snapshot; every snapshot file in the
\* store was taken from a trip state that validate reports ready, without
\* blockers.
C19_ExportBlockedWhileBlockers ==
    /\ (Exporting /\ ~validate(expenses).ready_for_export) =>
          /\ last_export.outcome = "ValueError"
          /\ last_export.returned = None
          /\ snapshot_files = last_export.files_before
    /\ \A f \in snapshot_files :
          /\ validate(f.taken_from).ready_for_export
          /\ validate(f.taken_from).blockers = <<>>
          /\ f.content.payload = ExportPayload(f.taken_from, f.content.payload.generated_at)

\* a snapshot was stored while the trip was ready, the trip then got a
\* blocker and the next save_snapshot was refused
C19_Witness ==
    /\ last_export # None
    /\ last_export.op = "save_snapshot"
    /\ last_export.outcome = "ValueError"
    /\ validate(expenses).blockers # <<>>
    /\ snapshot_files # {}
    /\ snapshot_files = last_export.files_before

(***************************************************************************)
(* RetentionSettings.prune on the entries under a base directory (core.py) *)
(***************************************************************************)
MaxFiles == 3

\* a path under the base directory: the directory of the base it is under
\* (at any depth) and the rest of it
Path(root, name) == [root |-> root, name |-> name]

Paths ==
    {Path("exports", "T-1/a.json"), Path("exports", "T-2/b.json"),
     Path("uploads", "T-1/a.png"), Path("uploads", "T-1/sub/b.png"),
     Path("notes", "a.txt")}

\* timedelta(days=days), in minutes
timedelta(days) == days * MinutesPerDay

\* the time handed to prune
PruneNow == At(3, 0)

RetentionDays == {1, 2}

\* modification times: a minute before the two-day cutoff, at it, and at the
\* one-day cutoff
ModificationTimes ==
    {PruneNow - timedelta(2) - 1, PruneNow - timedelta(2),
     PruneNow - timedelta(1)}

\* what can be found at a path: a file of some age, or a directory
Entries ==
    {[path |-> path, is_file |-> TRUE, mtime |-> mtime] :
        path \in Paths, mtime \in ModificationTimes}
    \cup {[path |-> path, is_file |-> FALSE,
           mtime |-> PruneNow - timedelta(2) - 1] : path \in Paths}

RetentionSettings(snapshot_retention_days, upload_retention_days) ==
    [snapshot_retention_days |-> snapshot_retention_days,
     upload_retention_days |-> upload_retention_days]

\* faulty variant: a file modified at the cutoff is deleted too
prune_older_than_or_at(entries, root, cutoff) ==
    {e \in entries : e.path.root = root /\ e.is_file /\ e.mtime <= cutoff}

\* the entries prune_older_than(base_dir / root, cutoff) unlinks; none when
\* the root does not exist
prune_older_than(entries, root, cutoff) ==
    {e \in entries : e.path.root = root /\ e.is_file /\ e.mtime < cutoff}

\* the orders in which root.rglob("*") can yield the paths of the entries
Listings(entries) ==
    {listing \in [1..Cardinality(entries) -> {e.path : e \in entries}] :
        \A i, j \in DOMAIN listing : i # j => listing[i] # listing[j]}

\* a file or a directory appears under the base directory
Create ==
    \E e \in Entries :
        /\ Cardinality(files) < MaxFiles
        /\ \A f \in files : f.path # e.path
        /\ files' = files \cup {e}
        /\ last_prune' = None
        /\ UNCHANGED outsideRetention

\* RetentionSettings.prune(base_dir, now)
Prune ==
    \E snapshot_retention_days \in RetentionDays,
       upload_retention_days \in RetentionDays :
        LET now == PruneNow
            exports == prune_older_than(files, "exports",
                          now - timedelta(snapshot_retention_days))
            uploads == prune_older_than(files \ exports, "uploads",
                          now - timedelta(upload_retention_days))
        IN  \E first \in Listings(exports), second \in Listings(uploads) :
                /\ files' = (files \ exports) \ uploads
                /\ last_prune' =
                      [settings |-> RetentionSettings(snapshot_retention_days,
                                                      upload_retention_days),
                       now |-> now,
                       deleted |-> first \o second,
                       before |-> files]
                /\ UNCHANGED outsideRetention

RetentionNext == Create \/ Prune

RetentionInit ==
    /\ RetentionAtRest
    /\ CallAtRest
    /\ SessionAtRest
    /\ ReceiptsAtRest
    /\ TripAtRest

RetentionSpec == RetentionInit /\ [][RetentionNext]_vars

\* the files of the last prune that were due: under exports/ and modified
\* before now - snapshot_retention_days, or under uploads/ and modified before
\* now - upload_retention_days
Due(u) ==
    {e \in u.before :
        /\ e.is_file
        /\ \/ /\ e.path.root = "exports"
              /\ e.mtime < u.now - u.settings.snapshot_retention_days * MinutesPerDay
           \/ /\ e.path.root = "uploads"
              /\ e.mtime < u.now - u.settings.upload_retention_days * MinutesPerDay}

\* C20: prune deletes exactly the files under exports/ modified earlier than
\* now - snapshot_retention_days and the files under uploads/ modified
\* earlier than now - upload_retention_days, returns exactly the paths it
\* deleted, each once, and leaves every other file and every directory in
\* place.
C20_PruneDeletesExactlyTheDue ==
    last_prune # None =>
        /\ files = last_prune.before \ Due(last_prune)
        /\ Members(last_prune.deleted) = {e.path : e \in Due(last_prune)}
        /\ Len(last_prune.deleted) = Cardinality(Due(last_prune))

\* a prune with two days for exports and one day for uploads deleted the
\* upload modified exactly two days before and kept the export of the same
\* age and a file outside both roots
C20_Witness ==
    /\ last_prune # None
    /\ last_prune.settings = RetentionSettings(2, 1)
    /\ last_prune.deleted = <<Path("uploads", "T-1/a.png")>>
    /\ \E f \in files :
          /\ f.path = Path("exports", "T-1/a.json")
          /\ f.is_file
          /\ f.mtime = PruneNow - timedelta(2)
    /\ \E f \in files : f.path.root = "notes" /\ f.is_file

\* the positions of the per-meal lines in the trace of a by_trip entry
MealLines(entry) ==
    {i \in 1..Len(entry.calculation_steps) :
        entry.calculation_steps[i].kind = "meal"}

\* some date of the segment's span has a record, the last one given for that
\* date, with a meal marked true
SomeMealInSpan(seg) ==
    \E d \in RecordedDates(seg) :
        RecordOf(seg, d).breakfast \/ RecordOf(seg, d).lunch
            \/ RecordOf(seg, d).dinner

\* C21: a DayMealProvision record affects a segment's deduction only if its
\* day lies within the span: every deducted meal is a meal marked true on the
\* record of a date of the span, the deduction is the sum of those
\* deductions and nothing else, so that dates without a record, records for
\* dates outside the span and records with all three meals false contribute
\* zero.
C21_OnlyRecordsInSpanCount ==
    \A k \in 1..Len(by_trip) :
        LET entry == by_trip[k]
            seg   == SegmentOf(entry)
            trace == entry.calculation_steps
        IN  /\ \A i \in MealLines(entry) :
                  /\ trace[i].day \in RecordedDates(seg)
                  /\ RecordOf(seg, trace[i].day)[trace[i].text]
            /\ \A i, j \in MealLines(entry) :
                  (trace[i].day = trace[j].day /\ trace[i].text = trace[j].text)
                      => i = j
            /\ Cents(entry.meal_deductions)
                  = SumOver([i \in MealLines(entry) |-> Cents(trace[i].a)],
                            MealLines(entry))
            /\ ~SomeMealInSpan(seg) =>
                  /\ MealLines(entry) = {}
                  /\ entry.meal_deductions = Display(0, 0)

\* a segment with a record for a date outside its span that marks a meal and
\* a record for a date of its span that marks none: nothing is deducted
C21_Witness ==
    \E k \in 1..Len(by_trip) :
        LET seg == SegmentOf(by_trip[k])
        IN  /\ \E r \in 1..Len(seg.provided_meals) :
                  /\ seg.provided_meals[r].day \notin
                        DateOf(seg.start)..DateOf(seg.end)
                  /\ seg.provided_meals[r].breakfast
            /\ \E r \in 1..Len(seg.provided_meals) :
                  /\ seg.provided_meals[r].day = DateOf(seg.start)
                  /\ ~seg.provided_meals[r].breakfast
                  /\ ~seg.provided_meals[r].lunch
                  /\ ~seg.provided_meals[r].dinner
            /\ by_trip[k].meal_deductions = Display(0, 0)

\* the number of day lines of a segment: one per calendar date of its span
DayLines(seg) == Dates(seg)

\* the trace of one by_trip entry: the rates line, the day lines in date
\* order, the meal lines in date order or the one line saying there are
\* none, the subtotal line
TripTraceShaped(entry) ==
    LET seg    == SegmentOf(entry)
        trace  == entry.calculation_steps
        n      == Len(trace)
        days   == DayLines(seg)
        meals  == (days + 2)..(n - 1)
    IN  /\ n >= days + 3
        /\ trace[1].kind = "rates"
        /\ trace[1].trip = entry.trip_id
        /\ \A i \in 2..(days + 1) :
              /\ trace[i].day = DateOf(seg.start) + (i - 2)
              /\ IF Dates(seg) = 1
                 THEN trace[i].kind = "single_day"
                 ELSE trace[i].kind \in {"arrival_departure", "full_day"}
        /\ IF Cents(entry.meal_deductions) = 0
           THEN /\ meals = {n - 1}
                /\ trace[n - 1].kind = "no_meal_deductions"
                /\ trace[n - 1].trip = entry.trip_id
           ELSE /\ \A i \in meals :
                      trace[i].kind \in {"meal", "meal_subtotal"}
                /\ \A i, j \in meals : i < j => trace[i].day <= trace[j].day
                /\ \A i \in meals :
                      trace[i].day \in DateOf(seg.start)..DateOf(seg.end)
        /\ trace[n].kind = "subtotal"
        /\ trace[n].trip = entry.trip_id

\* C22: the calculation_steps of a result are one rule-version line, then for
\* each trip in by_trip order that trip's own calculation_steps (one rates
\* line, one line per priced calendar date or a single line in the single-day
\* case, the meal lines or one 'no meal deductions' line when the deduction is
\* zero, one subtotal line), then one overall-total line; the steps of
\* different trips are never interleaved.
C22_TraceCompleteAndOrdered ==
    pc = "returned" =>
        LET trace == result[1].calculation_steps
            trips == result[1].by_trip
            n     == Len(trace)
        IN  /\ n >= 2
            /\ trace[1].kind = "version"
            /\ trace[1].text = RULE_VERSION
            /\ trace[n].kind = "overall"
            /\ SubSeq(trace, 2, n - 1)
                  = Flatten([k \in 1..Len(trips) |->
                                trips[k].calculation_steps])
            /\ \A k \in 1..Len(trips) : TripTraceShaped(trips[k])
            /\ \A i \in 2..(n - 1) : trace[i].kind \notin {"version", "overall"}

\* a result for two trips: one over several dates with meal lines, one on a
\* single date with the line saying there are no meal deductions
C22_Witness ==
    /\ pc = "returned"
    /\ Len(result[1].by_trip) = 2
    /\ \E k \in 1..2 :
          LET entry == result[1].by_trip[k]
          IN  /\ Dates(SegmentOf(entry)) >= 2
              /\ \E i \in 1..Len(entry.calculation_steps) :
                    entry.calculation_steps[i].kind = "meal_subtotal"
    /\ \E k \in 1..2 :
          LET entry == result[1].by_trip[k]
          IN  /\ Dates(SegmentOf(entry)) = 1
              /\ \E i \in 1..Len(entry.calculation_steps) :
                    entry.calculation_steps[i].kind = "no_meal_deductions"

\* C23: for every successful calculate the grand totals equal the sums of the
\* per-trip values exactly: totals.gross_allowance is the sum of the by_trip
\* gross_allowance, totals.meal_deductions the sum of the by_trip
\* meal_deductions and totals.net_allowance the sum of the by_trip
\* net_allowance, a drift of 0 for every batch.
C23_TotalsAreExactSums ==
    pc = "returned" =>
        LET totals == result[1].totals
            trips  == result[1].by_trip
        IN  /\ totals.gross_allowance.places = 2
            /\ totals.meal_deductions.places = 2
            /\ totals.net_allowance.places = 2
            /\ \A k \in 1..Len(trips) : TwoPlaces(trips[k])
            /\ Cents(totals.gross_allowance) = SumGross(trips)
            /\ Cents(totals.meal_deductions) = SumDeductions(trips)
            /\ Cents(totals.net_allowance) = SumNet(trips)

\* a result for three trips, two of them with an allowance and one with a
\* deduction, whose gross total is more than any single trip's gross
C23_Witness ==
    /\ pc = "returned"
    /\ Len(result[1].by_trip) = 3
    /\ \E j, k \in 1..3 :
          /\ j # k
          /\ Cents(result[1].by_trip[j].gross_allowance) > 0
          /\ Cents(result[1].by_trip[k].gross_allowance) > 0
    /\ \E k \in 1..3 : Cents(result[1].by_trip[k].meal_deductions) > 0
    /\ Cents(result[1].totals.net_allowance)
          < Cents(result[1].totals.gross_allowance)

\* C24 as stated: for every successfully calculated trip the meal deductions
\* do not exceed the gross allowance, so the per-trip net_allowance and the
\* total net_allowance are never negative.
C24_NetNeverNegative ==
    /\ \A k \in 1..Len(by_trip) :
          /\ Cents(by_trip[k].meal_deductions)
                <= Cents(by_trip[k].gross_allowance)
          /\ Cents(by_trip[k].net_allowance) >= 0
    /\ pc = "returned" => Cents(result[1].totals.net_allowance) >= 0

\* the segments of the batch that have an impossible time span, by input
\* position
ImpossibleAt(segs) == {i \in 1..Len(segs) : Impossible(segs[i])}

\* the positions in start order whose segment begins before the one before it
\* has ended
OverlapAt(segs) ==
    {i \in 1..(Len(segs) - 1) :
        SortedByStart(segs)[i + 1].start < SortedByStart(segs)[i].end}

\* the positions in start order whose country code has no rates
UnsupportedAt(segs) ==
    {i \in 1..Len(segs) : ~Supported(SortedByStart(segs)[i].country_code)}

\* C25: when a batch violates several preconditions at once, the reported
\* error follows a fixed precedence: empty batch first, then an invalid time
\* span (the first offending segment in input order), then an overlap (the
\* first overlapping adjacent pair in start order), then a duplicate receipt
\* id, and only when all of these pass an unsupported country code (the first
\* such segment in start order).
C25_ErrorPrecedence ==
    /\ pc = "raised" =>
          /\ error # None
          /\ IF segments = <<>>
             THEN error[1].kind = "empty"
             ELSE IF ImpossibleAt(segments) # {}
             THEN /\ error[1].kind = "timespan"
                  /\ error[1].trips
                        = <<segments[Min(ImpossibleAt(segments))].trip_id>>
             ELSE IF PairwiseOverlap(segments)
             THEN /\ error[1].kind = "overlap"
                  /\ OverlapAt(segments) # {}
                  /\ LET i == Min(OverlapAt(segments))
                     IN error[1].trips
                           = <<SortedByStart(segments)[i].trip_id,
                               SortedByStart(segments)[i + 1].trip_id>>
             ELSE IF HasDuplicateReceipt(segments)
             THEN error[1].kind = "duplicate"
             ELSE /\ error[1].kind = "country"
                  /\ UnsupportedAt(segments) # {}
                  /\ LET i == Min(UnsupportedAt(segments))
                     IN error[1].code
                           = Upper(SortedByStart(segments)[i].country_code)
    /\ pc = "returned" =>
          /\ segments # <<>>
          /\ ImpossibleAt(segments) = {}
          /\ ~PairwiseOverlap(segments)
          /\ ~HasDuplicateReceipt(segments)
          /\ UnsupportedAt(segments) = {}

\* three well-timed segments given in descending order of start, two of them
\* intersecting, a receipt id carried twice and unsupported country codes
\* among them: the overlap is what is reported
C25_Witness ==
    /\ Raises("overlap")
    /\ Len(segments) = 3
    /\ ImpossibleAt(segments) = {}
    /\ HasDuplicateReceipt(segments)
    /\ UnsupportedAt(segments) # {}
    /\ segments[1].start > segments[2].start
    /\ segments[2].start > segments[3].start

\* the last call was a forced OCR update
ForcedOcr == last_update # None /\ last_update.op = "ocr" /\ last_update.force

\* every given field is reported as updated, none as skipped, holds the given
\* value in its stored form and is owned by 'ocr'
AllWritten(u) ==
    /\ u.outcome = "returned"
    /\ u.updated = Sorted(DOMAIN u.fields)
    /\ u.skipped = <<>>
    /\ \A field \in DOMAIN u.fields :
          /\ receipt_row[field] = StoredForm(u.fields[field])
          /\ ownership[field] = "ocr"

\* a non-forced OCR update that returned has overwritten each of its fields
\* that was not owned by 'manual' when it was called
UnprotectedOverwritten ==
    (NonForcedOcr /\ last_update.outcome = "returned") =>
        \A field \in DOMAIN last_update.fields :
            last_update.ownership_before[field] # "manual" =>
                /\ field \in Members(last_update.updated)
                /\ receipt_row[field] = StoredForm(last_update.fields[field])
                /\ ownership[field] = "ocr"

\* a field becomes owned by 'manual' by a manual correction of it only
ProtectedByCorrectionOnly ==
    last_update # None =>
        \A field \in FieldNames :
            (ownership[field] = "manual"
                /\ last_update.ownership_before[field] # "manual") =>
                    /\ last_update.op = "manual"
                    /\ last_update.outcome = "returned"
                    /\ field \in DOMAIN last_update.fields

\* C26 as stated: apply_ocr_update with force=True writes every given field,
\* manual-owned ones included, skips none, and sets the owner of each written
\* field to 'ocr'; after a forced update the manual protection of those
\* fields is gone, so a later non-forced OCR update overwrites them until a
\* new manual correction is applied.
C26_EveryForcedUpdateWrites ==
    /\ ForcedOcr => AllWritten(last_update)
    /\ UnprotectedOverwritten
    /\ ProtectedByCorrectionOnly

\* C26: apply_ocr_update with force=True that names only updatable fields
\* writes every given field, manual-owned ones included, skips none, and sets
\* the owner of each to 'ocr'; one that names another field raises ValueError
\* and writes nothing.  A field owned by 'ocr' is overwritten by a non-forced
\* OCR update that returns, and only a manual correction of a field makes it
\* owned by 'manual' again.
C26_ForcedUpdateOverrides ==
    /\ ForcedOcr =>
          IF DOMAIN last_update.fields \subseteq UPDATABLE_FIELDS
          THEN AllWritten(last_update)
          ELSE /\ last_update.outcome = "raised"
               /\ receipt_row \in {last_update.row_before, None}
               /\ ownership = last_update.ownership_before
    /\ UnprotectedOverwritten
    /\ ProtectedByCorrectionOnly

\* a forced OCR update replaced a corrected vendor and a corrected amount
C26_Witness ==
    /\ ForcedOcr
    /\ last_update.outcome = "returned"
    /\ last_update.updated = <<"amount", "vendor">>
    /\ last_update.ownership_before["vendor"] = "manual"
    /\ last_update.ownership_before["amount"] = "manual"
    /\ last_update.row_before["vendor"] = Text("Cafe Nero")
    /\ receipt_row["vendor"] = Text("CAFE NER0")
    /\ receipt_row["amount"] = Str(Dec(125, 1))
    /\ ownership["vendor"] = "ocr"
    /\ ownership["amount"] = "ocr"

\* the last call named a field outside ReceiptRepository.UPDATABLE_FIELDS
NamedInvalidField ==
    last_update # None /\ ~(DOMAIN last_update.fields \subseteq UPDATABLE_FIELDS)

NothingChanged(u) ==
    /\ u.outcome = "raised"
    /\ receipt_row = u.row_before
    /\ ownership = u.ownership_before

\* C27 as stated: a receipt update that names a field outside
\* ReceiptRepository.UPDATABLE_FIELDS is all-or-nothing:
\* apply_manual_correction and apply_ocr_update raise ValueError and leave the
\* receipt row and every ownership record unchanged, also for the valid
\* fields passed in the same call.
C27_InvalidFieldLeavesAllUnchanged ==
    NamedInvalidField => NothingChanged(last_update)

\* where the connection had nothing uncommitted when the call began, the call
\* raises and nothing is changed
InvalidFieldLeavesCommittedUnchanged ==
    (NamedInvalidField /\ ~last_update.open_before) =>
        NothingChanged(last_update)

\* the call always raises, and no field holds a value the call gave
InvalidFieldRaises ==
    NamedInvalidField =>
        /\ last_update.outcome = "raised"
        /\ receipt_row \in {last_update.row_before, None}
        /\ ownership = last_update.ownership_before

(***************************************************************************)
(* A non-forced apply_ocr_update and an apply_manual_correction on the     *)
(* same receipt at once, each from a ReceiptUpdateService with a           *)
(* connection of its own to the same database (a sqlite3 connection        *)
(* serves the thread that opened it only).  receipt_row and ownership are  *)
(* what is committed, which is what get_owner reads; the statements of a   *)
(* `with self.conn` block work on the transaction's own copy, under the    *)
(* database's write lock, until the block's exit commits them.             *)
(***************************************************************************)
RaceFields == {"amount", "vendor"}

\* fields.items() of the OCR update: the dict's insertion order
OcrItems == {<<"vendor">>, <<"vendor", "amount">>, <<"amount", "vendor">>}

\* the owner a field has before the two calls
PriorOwner(tag) == IF tag = "none" THEN None ELSE tag

\* what the receipt held before the two calls, by the owner of the field
PriorValue(field, owner) ==
    IF None = owner THEN None
    ELSE IF field = "amount" THEN Str(Dec(990, 2)) ELSE Text("Cafe Zero")

OcrCall(items) ==
    [pc |-> "read", fields |-> [field \in Members(items) |-> OcrValue(field)],
     items |-> items, applied |-> {}, skipped |-> {}]

ManualCall(fields) == [pc |-> "write", fields |-> fields]

RaceInit ==
    /\ \E owners \in [RaceFields -> {"none", "ocr", "manual"}] :
          /\ ownership = [field_name \in FieldNames |->
                            IF field_name \in RaceFields
                            THEN PriorOwner(owners[field_name]) ELSE None]
          /\ receipt_row = [column \in ReceiptColumns |->
                              IF column \in RaceFields
                              THEN PriorValue(column,
                                              PriorOwner(owners[column]))
                              ELSE CreatedRow[column]]
    /\ \E items \in OcrItems, names \in {{"vendor"}, RaceFields} :
          in_flight = [ocr    |-> OcrCall(items),
                       manual |-> ManualCall(
                                    [field \in names |->
                                        ManualValue(field, Text("Cafe Nero"))]),
                       writer |-> None,
                       row    |-> None,
                       owners |-> None]
    /\ corrected = <<>>
    /\ last_update = None
    /\ in_transaction = FALSE
    /\ CallAtRest
    /\ SessionAtRest
    /\ TripAtRest
    /\ RetentionAtRest

\* lines 71-76 for one item of fields.items(): the owner is read from what is
\* committed, and the field is skipped or kept for the update
OcrReadOwner ==
    /\ in_flight # None
    /\ in_flight.ocr.pc = "read"
    /\ in_flight.ocr.items # <<>>
    /\ LET field == Head(in_flight.ocr.items)
           skip  == Skips(get_owner(ownership, field), FALSE)
       IN in_flight' =
            [in_flight EXCEPT
               !.ocr.items   = Tail(@),
               !.ocr.skipped = IF skip THEN @ \cup {field} ELSE @,
               !.ocr.applied = IF skip THEN @ ELSE @ \cup {field}]
    /\ UNCHANGED <<receipt_row, ownership, corrected, last_update,
                   in_transaction>>
    /\ UNCHANGED outsideReceipts

\* the fields the OCR update kept, with their values
Applied(call) == [field \in call.applied |-> call.fields[field]]

\* lines 78-79: update_fields; its UPDATE opens the transaction and takes the
\* write lock, for which it waits while the other connection holds it.  With
\* nothing to apply update_fields returns at once, no owner is set and the
\* block ends.
OcrUpdateFields ==
    /\ in_flight # None
    /\ in_flight.ocr.pc = "read"
    /\ in_flight.ocr.items = <<>>
    /\ IF in_flight.ocr.applied = {}
       THEN in_flight' = [in_flight EXCEPT !.ocr.pc = "returned"]
       ELSE /\ None = in_flight.writer
            /\ in_flight' =
                 [in_flight EXCEPT
                    !.ocr.pc = "owners",
                    !.writer = "ocr",
                    !.row    = update_fields(receipt_row, Applied(in_flight.ocr)),
                    !.owners = ownership]
    /\ UNCHANGED <<receipt_row, ownership, corrected, last_update,
                   in_transaction>>
    /\ UNCHANGED outsideReceipts

\* lines 80-81: set_owner for each applied field
OcrSetOwners ==
    /\ in_flight # None
    /\ in_flight.ocr.pc = "owners"
    /\ in_flight' =
         [in_flight EXCEPT
            !.ocr.pc = "commit",
            !.owners = set_owner(@, in_flight.ocr.applied, "ocr")]
    /\ UNCHANGED <<receipt_row, ownership, corrected, last_update,
                   in_transaction>>
    /\ UNCHANGED outsideReceipts

\* the end of the `with` block of line 78 commits; line 83 returns
OcrCommit ==
    /\ in_flight # None
    /\ in_flight.ocr.pc = "commit"
    /\ receipt_row' = in_flight.row
    /\ ownership' = in_flight.owners
    /\ in_flight' = [in_flight EXCEPT !.ocr.pc = "returned", !.writer = None,
                                      !.row = None, !.owners = None]
    /\ UNCHANGED <<corrected, last_update, in_transaction>>
    /\ UNCHANGED outsideReceipts

\* lines 86-87: update_fields of the manual correction
ManualUpdateFields ==
    /\ in_flight # None
    /\ in_flight.manual.pc = "write"
    /\ None = in_flight.writer
    /\ in_flight' =
         [in_flight EXCEPT
            !.manual.pc = "owners",
            !.writer = "manual",
            !.row    = update_fields(receipt_row, in_flight.manual.fields),
            !.owners = ownership]
    /\ UNCHANGED <<receipt_row, ownership, corrected, last_update,
                   in_transaction>>
    /\ UNCHANGED outsideReceipts

\* lines 88-89: set_owner for each field
ManualSetOwners ==
    /\ in_flight # None
    /\ in_flight.manual.pc = "owners"
    /\ in_flight' =
         [in_flight EXCEPT
            !.manual.pc = "commit",
            !.owners = set_owner(@, DOMAIN in_flight.manual.fields, "manual")]
    /\ UNCHANGED <<receipt_row, ownership, corrected, last_update,
                   in_transaction>>
    /\ UNCHANGED outsideReceipts

\* the end of the `with` block of line 86 commits; line 91 returns
ManualCommit ==
    /\ in_flight # None
    /\ in_flight.manual.pc = "commit"
    /\ receipt_row' = in_flight.row
    /\ ownership' = in_flight.owners
    /\ in_flight' = [in_flight EXCEPT !.manual.pc = "returned",
                                      !.writer = None,
                                      !.row = None, !.owners = None]
    /\ UNCHANGED <<corrected, last_update, in_transaction>>
    /\ UNCHANGED outsideReceipts

RaceNext ==
    \/ OcrReadOwner
    \/ OcrUpdateFields
    \/ OcrSetOwners
    \/ OcrCommit
    \/ ManualUpdateFields
    \/ ManualSetOwners
    \/ ManualCommit

RaceSpec == RaceInit /\ [][RaceNext]_vars

BothFinished ==
    /\ in_flight # None
    /\ in_flight.ocr.pc = "returned"
    /\ in_flight.manual.pc = "returned"

\* C28 as stated: under any interleaving of a non-forced apply_ocr_update
\* with an apply_manual_correction on the same field of the same receipt (the
\* ownership read, the field write and the ownership write of the OCR update
\* being separate steps), once both calls have finished the stored value is
\* the manual value and the field's owner is 'manual'.
C28_ManualWinsUnderAnyInterleaving ==
    BothFinished =>
        /\ receipt_row["vendor"] = in_flight.manual.fields["vendor"]
        /\ ownership["vendor"] = "manual"

\* the manual correction wins when the OCR update skipped the field: it met
\* the owner 'manual', set before the calls or committed by the correction
\* before the read
ManualWinsWhenOcrSkipped ==
    (BothFinished /\ "vendor" \in in_flight.ocr.skipped) =>
        /\ receipt_row["vendor"] = in_flight.manual.fields["vendor"]
        /\ ownership["vendor"] = "manual"

\* and when the OCR update committed before the manual correction took the
\* lock; otherwise the OCR value and the owner 'ocr' are what is stored
OcrWinsWhenCommittedLast ==
    (BothFinished /\ "vendor" \in in_flight.ocr.applied) =>
        \/ /\ receipt_row["vendor"] = in_flight.manual.fields["vendor"]
           /\ ownership["vendor"] = "manual"
        \/ /\ receipt_row["vendor"] = StoredForm(OcrValue("vendor"))
           /\ ownership["vendor"] = "ocr"

(***************************************************************************)
(* ExpenseItem.update alone: one expense and the calls of update on it,    *)
(* each kept with the expense as it was before the call                    *)
(***************************************************************************)
\* the changes of the calls: those of the trip's calls, the log itself given
\* as a field, and the update of the test (test_travel_mate.py lines 17-24)
UpdateChanges ==
    Changes \cup
    {<<<<"change_log", <<>>>>>>,
     <<<<"merchant", Chars(<<"A", " ", "b">>)>>, <<"amount", Dec(1230, 2)>>,
       <<"category", Text("Meals")>>, <<"image_hash", Text("h1")>>>>}

Updated(changes, outcome, returned) ==
    [op |-> "update", outcome |-> outcome, returned |-> returned,
     changes |-> changes, expense_before |-> expenses[1]]

\* ExpenseItem.update(**changes)
ExpenseUpdate ==
    \E changes \in UpdateChanges :
        LET done == update(expenses[1], changes)
        IN  /\ EntriesIn(done.expense.change_log)
                  - EntriesIn(expenses[1].change_log)
                  <= MaxEffects - Effects
            /\ expenses' = <<done.expense>>
            /\ last_export' =
                  Updated(changes,
                          IF done.raised THEN "AttributeError" ELSE "returned",
                          IF done.raised THEN None ELSE Some(done.entries))
            /\ UNCHANGED <<trip_change_log, snapshot_files, clock>>
            /\ UNCHANGED outsideTrip

UpdateNext == ExpenseUpdate

UpdateInit ==
    /\ \E draft \in Drafts :
          expenses = <<[draft EXCEPT !.expense_id = ExpenseId(1)]>>
    /\ trip_change_log = <<>>
    /\ snapshot_files = {}
    /\ clock = 0
    /\ last_export = None
    /\ CallAtRest
    /\ SessionAtRest
    /\ ReceiptsAtRest
    /\ RetentionAtRest

UpdateSpec == UpdateInit /\ [][UpdateNext]_vars

\* the entries update appends for the changes from the k-th on, given the
\* expense e as the changes before the k-th left it
RECURSIVE EntriesFor(_, _, _)
EntriesFor(e, changes, k) ==
    IF k > Len(changes) THEN <<>>
    ELSE LET field_name == changes[k][1]
             new_value  == changes[k][2]
         IN  IF Differs(e, field_name, new_value)
             THEN <<ChangeLogEntry("expense", e.expense_id, field_name,
                                   e[field_name], new_value)>>
                  \o EntriesFor([e EXCEPT ![field_name] = new_value],
                                changes, k + 1)
             ELSE EntriesFor(e, changes, k + 1)

Given(changes) == {changes[k][1] : k \in 1..Len(changes)}

IsPrefix(s, u) == Len(s) <= Len(u) /\ SubSeq(u, 1, Len(s)) = s

\* the expense holds every given value, and the other fields as before
SetsExactlyTheGiven(u) ==
    /\ \A k \in 1..Len(u.changes) :
          u.changes[k][1] # "change_log" =>
              ~NotEqual(expenses[1][u.changes[k][1]], u.changes[k][2])
    /\ \A name \in ExpenseAttributes \ (Given(u.changes) \cup {"change_log"}) :
          expenses[1][name] = u.expense_before[name]

\* the log is the log before followed by one entry for each given field
\* whose value differed, and these entries are what the call returned
LogsExactlyTheChanged(u) ==
    /\ u.outcome = "returned"
    /\ u.returned = Some(EntriesFor(u.expense_before, u.changes, 1))
    /\ expenses[1].change_log
          = u.expense_before.change_log \o u.returned[1]

LogOnlyGrows(u) ==
    /\ IsPrefix(u.expense_before.change_log, expenses[1].change_log)
    /\ \A k \in 1..Len(expenses[1].change_log) :
          LET entry == expenses[1].change_log[k]
          IN  /\ entry.entity_type = "expense"
              /\ IF entry.field_name = "change_log"
                 THEN entry.old_value # entry.new_value
                 ELSE NotEqual(entry.old_value, entry.new_value)

\* C29 as stated: ExpenseItem.update sets exactly the given fields, appends
\* exactly one ChangeLogEntry (entity_type 'expense', old value, new value)
\* for each given field whose new value differs from the current value and
\* none for a field given its current value, and returns exactly the entries
\* it appended; over any sequence of updates the change_log only grows and
\* every entry has old_value != new_value.
C29_UpdateLogsExactlyTheChanges ==
    /\ (last_export # None /\ last_export.outcome = "returned") =>
          /\ SetsExactlyTheGiven(last_export)
          /\ LogsExactlyTheChanged(last_export)
    /\ last_export # None => LogOnlyGrows(last_export)

\* the same of the calls that do not give the change_log as a field
UpdateOfDataFieldsLogsTheChanges ==
    (last_export # None /\ "change_log" \notin Given(last_export.changes)) =>
        /\ last_export.outcome = "returned" =>
              /\ SetsExactlyTheGiven(last_export)
              /\ LogsExactlyTheChanged(last_export)
        /\ LogOnlyGrows(last_export)

\* a call that replaced a log of two entries left a log of one
LogShrinks ==
    /\ last_export # None
    /\ Len(last_export.expense_before.change_log) = 2
    /\ Len(expenses[1].change_log) = 1

\* C30 as stated: ExpenseItem.update is all-or-nothing on error: when it
\* raises AttributeError for an unknown field name, no field of the expense
\* has been changed and no entry has been appended to its change_log,
\* whatever other fields were passed in the same call.
C30_UpdateAllOrNothing ==
    (last_export # None /\ last_export.outcome = "AttributeError") =>
        expenses[1] = last_export.expense_before

\* the fields given after the unknown name are as they were
FieldsAfterUnknownUntouched ==
    (last_export # None /\ last_export.outcome = "AttributeError") =>
        expenses[1].image_hash = last_export.expense_before.image_hash

====
